---- MODULE Spec2Model ----
(***************************************************************************)
(* Health-factor aggregation and liquidation simulation of the Aave V3     *)
(* risk engine (services/api/src/api/domain/health_factor.py) together     *)
(* with the callers that build the filtered population                     *)
(* (routes/health_factors.py, jobs/ingest_snapshots.py).                   *)
(*                                                                         *)
(* Numbers.  Python's Decimal values are modelled as exact rationals       *)
(* [n, d] in lowest terms, so two values are equal iff their records are.  *)
(* The inputs are small enough that no Decimal operation of the program    *)
(* would round at its 28 digit precision in a way a comparison could see.  *)
(* Python floats are modelled as binary floating point numbers with        *)
(* SigBits significant bits, rounded to nearest, ties to even.             *)
(*                                                                         *)
(* Text.  Strings that the program transforms (addresses, numeric fields)  *)
(* are sequences of one-character strings, so lower() and Decimal(text)    *)
(* are computed, not assumed.                                              *)
(*                                                                         *)
(* Objects.  UserPosition objects live in `heap`; an aggregate holds the   *)
(* heap indices of its positions, so sharing of position objects between   *)
(* aggregates is visible.                                                  *)
(***************************************************************************)
EXTENDS Integers, Sequences, FiniteSets, TLC

\* ------------------------------------------------------------------------
\* Bounds of the model
\* ------------------------------------------------------------------------

\* largest number of raw userReserve records in one fetch
MaxRecords == 4

\* significant bits of the floating point model
SigBits == 8

\* ------------------------------------------------------------------------
\* Exact decimal arithmetic
\* ------------------------------------------------------------------------

Abs(x) == IF x < 0 THEN 0 - x ELSE x

RECURSIVE GCD(_, _)
GCD(a, b) == IF b = 0 THEN a ELSE GCD(b, a % b)

RECURSIVE Pow(_, _)
Pow(b, e) == IF e = 0 THEN 1 ELSE b * Pow(b, e - 1)

DecInt(n) == [n |-> n, d |-> 1]

\* TRUE. Evaluating it makes TLC compute x here, as Python computes a value
\* where it is assigned, and not where it is first used.
Computed(x) == x = x

Zero == DecInt(0)
One == DecInt(1)

\* n/d with the common divisor g taken out
Reduced(n, d, g) == [n |-> n \div g, d |-> d \div g]

\* the value n/d (d > 0) in lowest terms
Dec(n, d) == IF n = 0 THEN Zero ELSE Reduced(n, d, GCD(Abs(n), d))

\* a + b, g being the common divisor of the denominators
AddOver(a, b, g) == Dec(a.n * (b.d \div g) + b.n * (a.d \div g), (a.d \div g) * b.d)

DecAdd(a, b) == AddOver(a, b, GCD(a.d, b.d))

DecNeg(a) == [n |-> 0 - a.n, d |-> a.d]

DecSub(a, b) == DecAdd(a, DecNeg(b))

\* a * b, g1 and g2 being the divisors that a.n shares with b.d and b.n
\* with a.d
MulOver(a, b, g1, g2) ==
    [n |-> (a.n \div g1) * (b.n \div g2), d |-> (a.d \div g2) * (b.d \div g1)]

DecMul(a, b) ==
    IF a.n = 0 \/ b.n = 0 THEN Zero
    ELSE MulOver(a, b, GCD(Abs(a.n), b.d), GCD(Abs(b.n), a.d))

\* 1 / b for b # 0
DecInv(b) == IF b.n < 0 THEN [n |-> 0 - b.d, d |-> 0 - b.n] ELSE [n |-> b.d, d |-> b.n]

\* a / b for b # 0
DecDiv(a, b) == DecMul(a, DecInv(b))

\* a < b: by the integer parts, and by the fractional parts when those agree
DecLt(a, b) ==
    \/ a.n \div a.d < b.n \div b.d
    \/ /\ a.n \div a.d = b.n \div b.d
       /\ (a.n % a.d) * b.d < (b.n % b.d) * a.d

DecLe(a, b) == a = b \/ DecLt(a, b)

\* Python's sum() over a sequence of Decimals (0 for the empty sequence)
RECURSIVE DecSum(_)
DecSum(s) == IF s = <<>> THEN Zero ELSE DecAdd(DecSum(SubSeq(s, 1, Len(s) - 1)), s[Len(s)])

\* ------------------------------------------------------------------------
\* Constants of health_factor.py
\* ------------------------------------------------------------------------

PERCENTAGE_FACTOR == 10000
PRICE_DECIMALS == 100000000

\* Optional[Decimal]
None == [isNone |-> TRUE, v |-> Zero]
Some(x) == [isNone |-> FALSE, v |-> x]

\* ------------------------------------------------------------------------
\* Text
\* ------------------------------------------------------------------------

UpperCase == <<"A","B","C","D","E","F","G","H","I","J","K","L","M",
               "N","O","P","Q","R","S","T","U","V","W","X","Y","Z">>
LowerCase == <<"a","b","c","d","e","f","g","h","i","j","k","l","m",
               "n","o","p","q","r","s","t","u","v","w","x","y","z">>

\* str.lower() on one character
lowerChar(c) ==
    IF \E i \in 1..26 : UpperCase[i] = c
    THEN LowerCase[CHOOSE i \in 1..26 : UpperCase[i] = c]
    ELSE c

\* str.lower()
lower(s) == [i \in 1..Len(s) |-> lowerChar(s[i])]

DigitChars == <<"0","1","2","3","4","5","6","7","8","9">>

IsDigit(c) == \E i \in 1..10 : DigitChars[i] = c
DigitVal(c) == (CHOOSE i \in 1..10 : DigitChars[i] = c) - 1

\* Decimal(text) / int(text) accept a text here iff it is a non-empty run
\* of decimal digits; every other text raises.
IsNumeric(s) == Len(s) > 0 /\ \A i \in 1..Len(s) : IsDigit(s[i])

RECURSIVE ParseInt(_)
ParseInt(s) ==
    IF s = <<>> THEN 0
    ELSE 10 * ParseInt(SubSeq(s, 1, Len(s) - 1)) + DigitVal(s[Len(s)])

\* the decimal text of a natural number (used to write the inputs)
RECURSIVE Text(_)
Text(n) ==
    IF n < 10 THEN <<DigitChars[n + 1]>>
    ELSE Append(Text(n \div 10), DigitChars[(n % 10) + 1])

\* ------------------------------------------------------------------------
\* Floating point
\* ------------------------------------------------------------------------

\* the integer nearest to q + r/d, ties to even
Nearest(q, r, d) ==
    IF 2 * r < d THEN q
    ELSE IF 2 * r > d THEN q + 1
    ELSE IF q % 2 = 0 THEN q ELSE q + 1

\* round a non-negative Decimal to the nearest integer, ties to even
RoundHalfEven(x) == Nearest(x.n \div x.d, x.n % x.d, x.d)

\* x / base^e
Scaled(x, base, e) ==
    IF e >= 0 THEN DecDiv(x, DecInt(Pow(base, e)))
    ELSE DecMul(x, DecInt(Pow(base, 0 - e)))

\* the exponent e with 2^(SigBits-1) <= x / 2^e < 2^SigBits, for x > 0,
\* searched from e upwards or downwards; scaled is x / 2^e
RECURSIVE FloatExponent(_, _)
FloatExponentFrom(x, e, scaled) ==
    IF ~DecLt(scaled, DecInt(Pow(2, SigBits))) THEN FloatExponent(x, e + 1)
    ELSE IF DecLt(scaled, DecInt(Pow(2, SigBits - 1))) THEN FloatExponent(x, e - 1)
    ELSE e

FloatExponent(x, e) == FloatExponentFrom(x, e, Scaled(x, 2, e))

\* the float nearest to a > 0 given its exponent
FloatAt(a, e) == Scaled(DecInt(RoundHalfEven(Scaled(a, 2, e))), 2, 0 - e)

\* v with the sign of x
Signed(x, v) == IF x.n < 0 THEN DecNeg(v) ELSE v

\* the float nearest to a > 0
FloatAbs(a) == FloatAt(a, FloatExponent(a, 0))

\* float(x): the nearest floating point number, itself a Decimal value
Float(x) ==
    IF x.n = 0 THEN Zero ELSE Signed(x, FloatAbs([n |-> Abs(x.n), d |-> x.d]))

\* ------------------------------------------------------------------------
\* UserPosition
\* ------------------------------------------------------------------------

total_debt(p) == DecAdd(p.variable_debt, p.stable_debt)

\* variant: the balance is valued whatever the flag
collateral_usd_whatever_flag(p) ==
    DecMul(DecDiv(p.collateral_balance, DecInt(Pow(10, p.decimals))),
           DecDiv(p.price_usd, DecInt(PRICE_DECIMALS)))


\* variant: the balance is divided by the price
collateral_usd_per_price(p) ==
    IF ~p.is_collateral_enabled \/ p.price_usd = Zero THEN Zero
    ELSE DecDiv(DecDiv(p.collateral_balance, DecInt(Pow(10, p.decimals))),
                DecDiv(p.price_usd, DecInt(PRICE_DECIMALS)))

collateral_usd(p) ==
    IF ~p.is_collateral_enabled THEN Zero
    ELSE DecMul(DecDiv(p.collateral_balance, DecInt(Pow(10, p.decimals))),
                DecDiv(p.price_usd, DecInt(PRICE_DECIMALS)))

debt_usd(p) ==
    DecMul(DecDiv(total_debt(p), DecInt(Pow(10, p.decimals))),
           DecDiv(p.price_usd, DecInt(PRICE_DECIMALS)))

liquidation_threshold_decimal(p) ==
    DecDiv(p.liquidation_threshold, DecInt(PERCENTAGE_FACTOR))

liquidation_bonus_decimal(p) ==
    DecDiv(p.liquidation_bonus, DecInt(PERCENTAGE_FACTOR))

\* ------------------------------------------------------------------------
\* UserHealthFactor: u = [user_address, positions], positions being heap
\* indices into h
\* ------------------------------------------------------------------------

\* the position objects of u, in list order
positions_of(h, u) == [k \in 1..Len(u.positions) |-> h[u.positions[k]]]

\* sum(p.collateral_usd for p in ps)
sum_collateral_usd(ps) == DecSum([k \in 1..Len(ps) |-> collateral_usd(ps[k])])

total_collateral_usd(h, u) == sum_collateral_usd(positions_of(h, u))

\* sum(p.collateral_usd * p.liquidation_threshold_decimal for p in ps)
sum_threshold_usd(ps) ==
    DecSum([k \in 1..Len(ps) |->
              DecMul(collateral_usd(ps[k]), liquidation_threshold_decimal(ps[k]))])

total_collateral_threshold_usd(h, u) ==
    sum_threshold_usd(SelectSeq(positions_of(h, u), LAMBDA p : p.is_collateral_enabled))

\* sum(p.debt_usd for p in ps)
sum_debt_usd(ps) == DecSum([k \in 1..Len(ps) |-> debt_usd(ps[k])])

\* variant: only the debt of collateral-enabled positions is counted
total_debt_usd_enabled_only(h, u) ==
    sum_debt_usd(SelectSeq(positions_of(h, u), LAMBDA p : p.is_collateral_enabled))

total_debt_usd(h, u) == sum_debt_usd(positions_of(h, u))

\* variant: a user without collateral is reported like a user without debt
ratio_or_none_without_collateral(collateral_threshold, debt) ==
    IF debt = Zero \/ collateral_threshold = Zero THEN None
    ELSE Some(DecDiv(collateral_threshold, debt))

\* None without debt, else total_collateral_threshold_usd / total_debt_usd
ratio_or_none(collateral_threshold, debt) ==
    IF debt = Zero THEN None ELSE Some(DecDiv(collateral_threshold, debt))

health_factor(h, u) ==
    ratio_or_none(total_collateral_threshold_usd(h, u), total_debt_usd(h, u))

\* variant: a health factor of exactly 1 counts as liquidatable
below_one_or_at_one(hf) == ~hf.isNone /\ DecLe(hf.v, One)

\* `hf is not None and hf < 1`
below_one(hf) == ~hf.isNone /\ DecLt(hf.v, One)

is_liquidatable(h, u) == below_one(health_factor(h, u))

\* variant: the addresses are compared as they are
matches_asset_exactly(p, asset_address) == p.asset_address = asset_address

\* `p.asset_address.lower() == asset_address.lower()`
matches_asset(p, asset_address) == lower(p.asset_address) = lower(asset_address)

\* variant: the price of the position object itself is overwritten
with_price_dropped_in_place(acc, id, multiplier) ==
    [heap |-> [acc.heap EXCEPT ![id].price_usd = DecMul(@, multiplier)],
     new_positions |-> Append(acc.new_positions, id)]

\* a new UserPosition with the adjusted price is allocated and appended to
\* new_positions
with_price_dropped(acc, id, multiplier) ==
    [heap |-> Append(acc.heap,
                [acc.heap[id] EXCEPT !.price_usd = DecMul(@, multiplier)]),
     new_positions |-> Append(acc.new_positions, Len(acc.heap) + 1)]

\* the position is appended to new_positions as it is
with_position_kept(acc, id) ==
    [heap |-> acc.heap, new_positions |-> Append(acc.new_positions, id)]

\* the loop of simulate_price_drop over positions k..Len: acc carries the
\* heap and new_positions
RECURSIVE price_drop_loop(_, _, _, _, _)
price_drop_loop(u, k, asset_address, multiplier, acc) ==
    IF k > Len(u.positions) \/ ~Computed(acc) THEN acc
    ELSE price_drop_loop(u, k + 1, asset_address, multiplier,
            IF matches_asset(acc.heap[u.positions[k]], asset_address)
            THEN with_price_dropped(acc, u.positions[k], multiplier)
            ELSE with_position_kept(acc, u.positions[k]))

\* variant: the drop itself as a fraction
multiplier_as_drop_fraction(drop_percent) == DecDiv(drop_percent, DecInt(100))

\* (100 - drop_percent) / 100
multiplier_of(drop_percent) == DecDiv(DecSub(DecInt(100), drop_percent), DecInt(100))

\* UserHealthFactor(user_address=self.user_address, positions=new_positions)
projected_aggregate(u, done) ==
    [heap |-> done.heap,
     result |-> [user_address |-> u.user_address, positions |-> done.new_positions]]

\* returns the heap after the call and the new aggregate
simulate_price_drop(h, u, asset_address, drop_percent) ==
    projected_aggregate(u,
        price_drop_loop(u, 1, asset_address, multiplier_of(drop_percent),
                        [heap |-> h, new_positions |-> <<>>]))

RECURSIVE position_count(_)
position_count(us) ==
    IF us = <<>> THEN 0
    ELSE position_count(SubSeq(us, 1, Len(us) - 1)) + Len(us[Len(us)].positions)

\* the objects of h that the population us refers to; the population's
\* objects are the first ones allocated
population_heap(h, us) == SubSeq(h, 1, position_count(us))

\* the heap once the objects a call allocated are unreachable: what is left
\* of h_after are the objects that existed in h_before
after_call(h_after, h_before) == SubSeq(h_after, 1, Len(h_before))

\* ------------------------------------------------------------------------
\* parse_user_reserves
\* ------------------------------------------------------------------------

\* variant: only a null or missing price object is skipped
has_no_price_object_only(reserve) ==
    reserve.price.kind # "object"

\* `not reserve.get("price") or not reserve["price"].get("priceInUsd")`:
\* the price is missing, null or an empty object, or priceInUsd is missing
\* or the empty text
has_no_price(reserve) ==
    \/ reserve.price.kind # "object"
    \/ ~reserve.price.has_priceInUsd
    \/ reserve.price.priceInUsd = <<>>

\* the numeric texts that building the UserPosition converts
numeric_fields(r) ==
    <<r.reserve.decimals, r.currentATokenBalance, r.currentVariableDebt,
      r.currentStableDebt, r.reserve.baseLTVasCollateral,
      r.reserve.reserveLiquidationThreshold, r.reserve.reserveLiquidationBonus,
      r.reserve.price.priceInUsd>>

\* variant: the user's flag alone enables the collateral
new_position_by_user_flag(r) ==
    [user_address |-> lower(r.user_id),
     asset_symbol |-> r.reserve.symbol,
     asset_address |-> lower(r.reserve.underlyingAsset),
     decimals |-> ParseInt(r.reserve.decimals),
     collateral_balance |-> DecInt(ParseInt(r.currentATokenBalance)),
     variable_debt |-> DecInt(ParseInt(r.currentVariableDebt)),
     stable_debt |-> DecInt(ParseInt(r.currentStableDebt)),
     ltv |-> DecInt(ParseInt(r.reserve.baseLTVasCollateral)),
     liquidation_threshold |-> DecInt(ParseInt(r.reserve.reserveLiquidationThreshold)),
     liquidation_bonus |-> DecInt(ParseInt(r.reserve.reserveLiquidationBonus)),
     price_usd |-> DecInt(ParseInt(r.reserve.price.priceInUsd)),
     is_collateral_enabled |-> r.usageAsCollateralEnabledOnUser]

new_position(r) ==
    [user_address |-> lower(r.user_id),
     asset_symbol |-> r.reserve.symbol,
     asset_address |-> lower(r.reserve.underlyingAsset),
     decimals |-> ParseInt(r.reserve.decimals),
     collateral_balance |-> DecInt(ParseInt(r.currentATokenBalance)),
     variable_debt |-> DecInt(ParseInt(r.currentVariableDebt)),
     stable_debt |-> DecInt(ParseInt(r.currentStableDebt)),
     ltv |-> DecInt(ParseInt(r.reserve.baseLTVasCollateral)),
     liquidation_threshold |-> DecInt(ParseInt(r.reserve.reserveLiquidationThreshold)),
     liquidation_bonus |-> DecInt(ParseInt(r.reserve.reserveLiquidationBonus)),
     price_usd |-> DecInt(ParseInt(r.reserve.price.priceInUsd)),
     is_collateral_enabled |-> (r.usageAsCollateralEnabledOnUser
                                /\ r.reserve.usageAsCollateralEnabled)]

\* index of the entry of dict us with the given key, 0 if absent
key_index(us, key) ==
    IF \E i \in 1..Len(us) : us[i].user_address = key
    THEN CHOOSE i \in 1..Len(us) : us[i].user_address = key
    ELSE 0

\* users with an entry for key: users itself when the key is present, else
\* users with a new UserHealthFactor(user_address=key) at the end
with_user(users, key, at) ==
    IF at = 0 THEN Append(users, [user_address |-> key, positions |-> <<>>])
    ELSE users

\* users[user_id].positions.append(position), the position being the
\* object `id`; at is the index of the user's entry or 0
position_appended(users, at, id) ==
    [users EXCEPT ![IF at = 0 THEN Len(users) ELSE at].positions = Append(@, id)]

\* one reserve whose conversions succeed
reserve_parsed(acc, r, at) ==
    [raised |-> FALSE,
     heap |-> Append(acc.heap, new_position(r)),
     users |-> position_appended(with_user(acc.users, lower(r.user_id), at), at,
                                 Len(acc.heap) + 1)]

\* variant: the aggregate is looked up under the user id as received
reserve_converted_by_raw_id(acc, r, fields) ==
    IF \E f \in 1..Len(fields) : ~IsNumeric(fields[f])
    THEN [acc EXCEPT !.raised = TRUE]
    ELSE reserve_parsed(acc, r, key_index(acc.users, r.user_id))

\* the body of the loop for one reserve with a price
reserve_converted(acc, r, fields) ==
    IF \E f \in 1..Len(fields) : ~IsNumeric(fields[f])
    THEN [acc EXCEPT !.raised = TRUE]
    ELSE reserve_parsed(acc, r, key_index(acc.users, lower(r.user_id)))

\* the loop over raw_reserves[k..]; acc.raised is set when a conversion
\* raises, which ends the call without a result
RECURSIVE parse_loop(_, _, _)
parse_loop(raw_reserves, k, acc) ==
    IF k > Len(raw_reserves) \/ acc.raised THEN acc
    ELSE parse_loop(raw_reserves, k + 1,
            IF has_no_price(raw_reserves[k].reserve) THEN acc
            ELSE reserve_converted(acc, raw_reserves[k],
                                   numeric_fields(raw_reserves[k])))

\* the returned dict is the sequence of its values in insertion order; the
\* key of an entry is its user_address
parse_user_reserves(raw_reserves) ==
    parse_loop(raw_reserves, 1, [raised |-> FALSE, heap |-> <<>>, users |-> <<>>])

\* ------------------------------------------------------------------------
\* simulate_liquidations
\* ------------------------------------------------------------------------

\* variant: the whole debt can be repaid in one liquidation
DEFAULT_CLOSE_FACTOR_FULL == One

DEFAULT_CLOSE_FACTOR == Dec(1, 2)
DEFAULT_LIQUIDATION_BONUS == Dec(1, 20)

\* variant: the price is read in the oracle's units
RECURSIVE scan_positions_in_oracle_units(_, _, _, _, _)
scan_positions_in_oracle_units(h, u, k, asset_address, original_price) ==
    IF k > Len(u.positions) THEN original_price
    ELSE IF matches_asset(h[u.positions[k]], asset_address)
         THEN h[u.positions[k]].price_usd
         ELSE scan_positions_in_oracle_units(h, u, k + 1, asset_address, original_price)

\* inner loop of the original-price scan over the positions of u
RECURSIVE scan_positions(_, _, _, _, _)
scan_positions(h, u, k, asset_address, original_price) ==
    IF k > Len(u.positions) THEN original_price
    ELSE IF matches_asset(h[u.positions[k]], asset_address)
         THEN DecDiv(h[u.positions[k]].price_usd, DecInt(PRICE_DECIMALS))
         ELSE scan_positions(h, u, k + 1, asset_address, original_price)

\* outer loop of the original-price scan over users.values(); found is the
\* price after the inner loop over us[i]
RECURSIVE scan_users(_, _, _, _, _)
scan_next_user(h, us, i, asset_address, found) ==
    IF DecLt(Zero, found) THEN found
    ELSE scan_users(h, us, i + 1, asset_address, found)

scan_users(h, us, i, asset_address, original_price) ==
    IF i > Len(us) THEN original_price
    ELSE scan_next_user(h, us, i, asset_address,
                        scan_positions(h, us[i], 1, asset_address, original_price))

\* `float(hf_before) if hf_before else None`
float_or_none(hf) ==
    IF hf.isNone \/ hf.v = Zero THEN None ELSE Some(Float(hf.v))

\* variant: a projected health factor of exactly 1 counts as well
would_be_liquidatable_at_one(hf_after) == ~hf_after.isNone /\ DecLe(hf_after.v, One)

\* `hf_after is not None and hf_after < 1`
would_be_liquidatable(hf_after) == ~hf_after.isNone /\ DecLt(hf_after.v, One)

\* variant: the amounts of the aggregate before the shock are added
amounts_at_risk_before_shock(h, user, simulated) ==
    [collateral |-> total_collateral_usd(h, user), debt |-> total_debt_usd(h, user)]

\* what an affected user adds to total_collateral_at_risk and
\* total_debt_at_risk
amounts_at_risk(h, user, simulated) ==
    [collateral |-> total_collateral_usd(h, simulated),
     debt |-> total_debt_usd(h, simulated)]

\* the entry appended to affected
affected_entry(h, user, simulated, hf_before, hf_after) ==
    [user_address |-> user.user_address,
     hf_before |-> float_or_none(hf_before),
     hf_after |-> Float(hf_after.v),
     collateral_usd |-> Float(total_collateral_usd(h, simulated)),
     debt_usd |-> Float(total_debt_usd(h, simulated))]

\* the totals and the list after an affected user
user_added(acc, h, amounts, entry) ==
    [heap |-> h,
     total_collateral_at_risk |-> DecAdd(acc.total_collateral_at_risk, amounts.collateral),
     total_debt_at_risk |-> DecAdd(acc.total_debt_at_risk, amounts.debt),
     affected |-> Append(acc.affected, entry)]

\* the `if hf_after is not None and hf_after < 1` statement
user_judged(acc, user, sim, hf_before, hf_after) ==
    IF would_be_liquidatable(hf_after)
    THEN user_added(acc, sim.heap, amounts_at_risk(sim.heap, user, sim.result),
                    affected_entry(sim.heap, user, sim.result, hf_before, hf_after))
    ELSE [acc EXCEPT !.heap = sim.heap]

\* the body of the loop after `simulated = user.simulate_price_drop(...)`,
\* sim being the heap and the aggregate that call returned
user_simulated(acc, user, sim) ==
    user_judged(acc, user, sim, health_factor(sim.heap, user),
                health_factor(sim.heap, sim.result))

\* the loop over users.values() that collects the affected users
RECURSIVE affected_loop(_, _, _, _, _)
affected_loop(us, i, asset_address, price_drop_percent, acc) ==
    IF i > Len(us) \/ ~Computed(acc) THEN acc
    ELSE affected_loop(us, i + 1, asset_address, price_drop_percent,
            IF total_debt_usd(acc.heap, us[i]) = Zero THEN acc
            ELSE user_simulated(acc, us[i],
                    simulate_price_drop(acc.heap, us[i], asset_address,
                                        price_drop_percent)))

\* insert x into the sorted list s after every entry whose key is not larger
RECURSIVE insert_by_hf_after(_, _)
insert_by_hf_after(s, x) ==
    IF s = <<>> THEN <<x>>
    ELSE IF DecLt(x.hf_after, s[Len(s)].hf_after)
         THEN Append(insert_by_hf_after(SubSeq(s, 1, Len(s) - 1), x), s[Len(s)])
         ELSE Append(s, x)

\* variant: the entries stay in the order of the loop
in_loop_order(s) == s

\* sorted(affected, key=lambda x: x["hf_after"]), a stable sort
RECURSIVE sorted_by_hf_after(_)
sorted_by_hf_after(s) ==
    IF s = <<>> THEN <<>>
    ELSE insert_by_hf_after(sorted_by_hf_after(SubSeq(s, 1, Len(s) - 1)), s[Len(s)])

\* the close_factor parameter: its default when the caller leaves it out
close_factor_of(close_factor_arg) ==
    IF close_factor_arg.isNone THEN DEFAULT_CLOSE_FACTOR ELSE close_factor_arg.v

\* the liquidation_bonus parameter: its default when the caller leaves it out
liquidation_bonus_of(liquidation_bonus_arg) ==
    IF liquidation_bonus_arg.isNone THEN DEFAULT_LIQUIDATION_BONUS
    ELSE liquidation_bonus_arg.v

\* the LiquidationSimulation that is returned
liquidation_simulation(asset_address, asset_symbol, price_drop_percent, close_factor, liquidation_bonus, original_price, done, estimated_liquidatable_debt) ==
    [heap |-> done.heap,
     result |->
       [price_drop_percent |-> price_drop_percent,
        asset_symbol |-> asset_symbol,
        asset_address |-> asset_address,
        original_price_usd |-> original_price,
        simulated_price_usd |-> DecMul(original_price, multiplier_of(price_drop_percent)),
        users_at_risk |-> Len(done.affected),
        users_liquidatable |-> Len(done.affected),
        total_collateral_at_risk_usd |-> done.total_collateral_at_risk,
        total_debt_at_risk_usd |-> done.total_debt_at_risk,
        close_factor |-> close_factor,
        liquidation_bonus |-> liquidation_bonus,
        estimated_liquidatable_debt_usd |-> estimated_liquidatable_debt,
        estimated_liquidator_profit_usd |->
            DecMul(estimated_liquidatable_debt, liquidation_bonus),
        affected_users |-> sorted_by_hf_after(done.affected)]]

\* the estimates once the loop is done
liquidations_estimated(asset_address, asset_symbol, price_drop_percent, close_factor, liquidation_bonus, original_price, done) ==
    liquidation_simulation(asset_address, asset_symbol, price_drop_percent,
        close_factor, liquidation_bonus, original_price, done,
        DecMul(done.total_debt_at_risk, close_factor))

\* close_factor and liquidation_bonus are None when the caller leaves them
\* out; returns the heap after the call and the LiquidationSimulation
simulate_liquidations(h, us, asset_address, asset_symbol, price_drop_percent, close_factor_arg, liquidation_bonus_arg) ==
    liquidations_estimated(asset_address, asset_symbol, price_drop_percent,
        close_factor_of(close_factor_arg),
        liquidation_bonus_of(liquidation_bonus_arg),
        scan_users(h, us, 1, asset_address, Zero),
        affected_loop(us, 1, asset_address, price_drop_percent,
                      [heap |-> h,
                       total_collateral_at_risk |-> Zero,
                       total_debt_at_risk |-> Zero,
                       affected |-> <<>>]))

\* ------------------------------------------------------------------------
\* get_health_factor_analysis and ingest_health_factor_snapshot
\* ------------------------------------------------------------------------

\* Decimal(str(f)) for a float f > 0: str gives the shortest decimal text
\* that converts back to f. decimal_exponent is the exponent t with
\* 10^(k-1) <= f * 10^t < 10^k, scaled being f * 10^t
RECURSIVE decimal_exponent(_, _, _)
decimal_exponent_from(f, k, t, scaled) ==
    IF ~DecLt(scaled, DecInt(Pow(10, k))) THEN decimal_exponent(f, k, t - 1)
    ELSE IF DecLt(scaled, DecInt(Pow(10, k - 1))) THEN decimal_exponent(f, k, t + 1)
    ELSE t

decimal_exponent(f, k, t) == decimal_exponent_from(f, k, t, Scaled(f, 10, 0 - t))

\* the decimal nearest to f with the digits after 10^-t dropped
decimal_at(f, t) == Scaled(DecInt(RoundHalfEven(Scaled(f, 10, 0 - t))), 10, t)

\* the decimal of k significant digits nearest to f
nearest_decimal(f, k) == decimal_at(f, decimal_exponent(f, k, 0))

\* the first candidate of k or more digits that converts back to f
RECURSIVE shortest_decimal(_, _)
shortest_decimal_from(f, k, candidate) ==
    IF Float(candidate) = f THEN candidate ELSE shortest_decimal(f, k + 1)

shortest_decimal(f, k) == shortest_decimal_from(f, k, nearest_decimal(f, k))

decimal_of_str_of_float(f) == IF f = Zero THEN Zero ELSE shortest_decimal(f, 1)

\* a + b on floats
float_add(a, b) == Float(DecAdd(a, b))

\* variant: a health factor of exactly 1 is not counted
already_liquidatable_below_one(debt, hf) ==
    DecLt(Zero, debt) /\ ~hf.isNone /\ DecLt(hf.v, One)

\* `total_debt > 0 and hf is not None and hf <= 1`
already_liquidatable(debt, hf) ==
    DecLt(Zero, debt) /\ ~hf.isNone /\ DecLe(hf.v, One)

\* variant: a health factor of exactly 1 is kept
not_yet_liquidatable_from_one(debt, hf) == debt = Zero \/ hf.isNone \/ DecLe(One, hf.v)

\* `total_debt == 0 or hf is None or hf > 1`
not_yet_liquidatable(debt, hf) == debt = Zero \/ hf.isNone \/ DecLt(One, hf.v)

\* routes/health_factors.py: users_excluded
route_users_excluded(h, all_users) ==
    SelectSeq(all_users, LAMBDA u :
        already_liquidatable(total_debt_usd(h, u), health_factor(h, u)))

\* variant: nobody is excluded
route_valid_users_unfiltered(h, all_users) == all_users

\* routes/health_factors.py: valid_users
route_valid_users(h, all_users) ==
    SelectSeq(all_users, LAMBDA u :
        not_yet_liquidatable(total_debt_usd(h, u), health_factor(h, u)))

MIN_COLLATERAL_USD == DecInt(100)

\* jobs/ingest_snapshots.py: users_excluded
job_users_excluded(h, all_users) ==
    SelectSeq(all_users, LAMBDA u :
        /\ DecLe(MIN_COLLATERAL_USD, total_collateral_usd(h, u))
        /\ already_liquidatable(total_debt_usd(h, u), health_factor(h, u)))

\* jobs/ingest_snapshots.py: valid_users
job_valid_users(h, all_users) ==
    SelectSeq(all_users, LAMBDA u :
        /\ DecLe(MIN_COLLATERAL_USD, total_collateral_usd(h, u))
        /\ not_yet_liquidatable(total_debt_usd(h, u), health_factor(h, u)))

users_with_debt_of(h, valid_users) ==
    SelectSeq(valid_users, LAMBDA u : DecLt(Zero, total_debt_usd(h, u)))

\* `hf and low < hf < high`
strictly_between(hf, low, high) ==
    ~hf.isNone /\ hf.v # Zero /\ DecLt(low, hf.v) /\ DecLt(hf.v, high)

\* `u.health_factor and Decimal("1.0") < u.health_factor < Decimal("1.5")`
users_at_risk_of(h, users_with_debt) ==
    SelectSeq(users_with_debt, LAMBDA u :
        strictly_between(health_factor(h, u), One, Dec(3, 2)))

\* the histogram bands (label, low, high)
buckets ==
    << <<"1.0-1.1", One, Dec(11, 10)>>,
       <<"1.1-1.25", Dec(11, 10), Dec(5, 4)>>,
       <<"1.25-1.5", Dec(5, 4), Dec(3, 2)>>,
       <<"1.5-2.0", Dec(3, 2), DecInt(2)>>,
       <<"2.0-3.0", DecInt(2), DecInt(3)>>,
       <<"3.0-5.0", DecInt(3), DecInt(5)>>,
       <<"> 5.0", DecInt(5), DecInt(999999)>> >>

\* `hf is not None and low <= hf < high`
in_bucket(hf, low, high) == ~hf.isNone /\ DecLe(low, hf.v) /\ DecLt(hf.v, high)

\* float(sum(u.total_collateral_usd for u in us))
summed_collateral_usd(h, us) ==
    Float(DecSum([k \in 1..Len(us) |-> total_collateral_usd(h, us[k])]))

\* float(sum(u.total_debt_usd for u in us))
summed_debt_usd(h, us) ==
    Float(DecSum([k \in 1..Len(us) |-> total_debt_usd(h, us[k])]))

\* the entry of one band, matching being the users of the band
bucket_entry(h, label, matching) ==
    [bucket |-> label,
     count |-> Len(matching),
     total_collateral_usd |-> summed_collateral_usd(h, matching),
     total_debt_usd |-> summed_debt_usd(h, matching)]

\* _build_distribution_filtered, and the same loop of the job
build_distribution_filtered(h, us) ==
    [b \in 1..Len(buckets) |->
        bucket_entry(h, buckets[b][1],
            SelectSeq(us, LAMBDA u :
                in_bucket(health_factor(h, u), buckets[b][2], buckets[b][3])))]

\* index of the entry of asset_totals for address addr, 0 if absent
asset_index(asset_totals, addr) ==
    IF \E i \in 1..Len(asset_totals) : asset_totals[i].address = addr
    THEN CHOOSE i \in 1..Len(asset_totals) : asset_totals[i].address = addr
    ELSE 0

\* asset_totals with an entry for the asset of pos: asset_totals itself when
\* the address is present, else asset_totals with a new entry at the end
with_asset(asset_totals, pos, at) ==
    IF at # 0 THEN asset_totals
    ELSE Append(asset_totals,
           [symbol |-> pos.asset_symbol,
            address |-> pos.asset_address,
            ltv |-> Float(DecDiv(pos.ltv, DecInt(10000))),
            liquidation_threshold |-> Float(liquidation_threshold_decimal(pos)),
            liquidation_bonus |-> Float(DecSub(liquidation_bonus_decimal(pos), One)),
            price_usd |-> Float(DecDiv(pos.price_usd, DecInt(PRICE_DECIMALS))),
            total_collateral_usd |-> Zero,
            total_debt_usd |-> Zero])

\* the two `+=` on the entry i of entries
amounts_added(entries, pos, i) ==
    [entries EXCEPT
       ![i].total_collateral_usd = float_add(@, Float(collateral_usd(pos))),
       ![i].total_debt_usd = float_add(@, Float(debt_usd(pos)))]

\* the body of the asset_totals loop for one position, at being the index
\* of the asset's entry or 0
position_added(asset_totals, pos, at) ==
    amounts_added(with_asset(asset_totals, pos, at), pos,
                  IF at = 0 THEN Len(asset_totals) + 1 ELSE at)

add_position(asset_totals, pos) ==
    position_added(asset_totals, pos, asset_index(asset_totals, pos.asset_address))

\* all positions of the users of us, user by user
RECURSIVE all_positions(_, _)
all_positions(h, us) ==
    IF us = <<>> THEN <<>>
    ELSE all_positions(h, SubSeq(us, 1, Len(us) - 1)) \o positions_of(h, us[Len(us)])

RECURSIVE asset_totals_loop(_, _, _)
asset_totals_loop(ps, k, asset_totals) ==
    IF k > Len(ps) \/ ~Computed(asset_totals) THEN asset_totals
    ELSE asset_totals_loop(ps, k + 1, add_position(asset_totals, ps[k]))

total_value(rc) == float_add(rc.total_collateral_usd, rc.total_debt_usd)

\* insert x into the descending list s after every entry whose key is not
\* smaller
RECURSIVE insert_by_total_value(_, _)
insert_by_total_value(s, x) ==
    IF s = <<>> THEN <<x>>
    ELSE IF DecLt(total_value(s[Len(s)]), total_value(x))
         THEN Append(insert_by_total_value(SubSeq(s, 1, Len(s) - 1), x), s[Len(s)])
         ELSE Append(s, x)

\* sorted(asset_totals.values(), key=total value, reverse=True), stable
RECURSIVE sorted_by_total_value(_)
sorted_by_total_value(s) ==
    IF s = <<>> THEN <<>>
    ELSE insert_by_total_value(sorted_by_total_value(SubSeq(s, 1, Len(s) - 1)),
                               s[Len(s)])

build_reserve_configs(h, valid_users) ==
    sorted_by_total_value(asset_totals_loop(all_positions(h, valid_users), 1, <<>>))

\* index of the first reserve config whose symbol is WETH, 0 if none
weth_index(reserve_configs) ==
    IF \E i \in 1..Len(reserve_configs) : reserve_configs[i].symbol = "WETH"
    THEN CHOOSE i \in 1..Len(reserve_configs) :
            /\ reserve_configs[i].symbol = "WETH"
            /\ \A j \in 1..(i - 1) : reserve_configs[j].symbol # "WETH"
    ELSE 0

\* the price drops of the four scenarios
SCENARIO_DROPS == <<DecInt(1), DecInt(3), DecInt(5), DecInt(10)>>

\* one scenario appended; the objects its call allocated are dropped
scenario_appended(acc, sim) ==
    [heap |-> after_call(sim.heap, acc.heap),
     scenarios |-> Append(acc.scenarios, sim.result)]

\* the four simulate_liquidations calls, one after the other on the same
\* valid_users; acc carries the heap and the scenarios so far
RECURSIVE run_scenarios(_, _, _, _, _)
run_scenarios(valid_users, weth_address, weth_bonus, k, acc) ==
    IF k > Len(SCENARIO_DROPS) \/ ~Computed(acc) THEN acc
    ELSE run_scenarios(valid_users, weth_address, weth_bonus, k + 1,
            scenario_appended(acc,
                simulate_liquidations(acc.heap, valid_users, weth_address, "WETH",
                                      SCENARIO_DROPS[k], None, Some(weth_bonus))))

\* `weth_bonus = Decimal(str(rc.liquidation_bonus))` for the WETH config,
\* the default without one
weth_bonus_of(reserve_configs, w) ==
    IF w = 0 THEN DEFAULT_LIQUIDATION_BONUS
    ELSE decimal_of_str_of_float(reserve_configs[w].liquidation_bonus)

\* `if weth_address and users_with_debt:` and the scenarios under it
weth_scenarios(h, valid_users, users_with_debt, reserve_configs, w, weth_bonus) ==
    IF w # 0 /\ reserve_configs[w].address # <<>> /\ users_with_debt # <<>>
    THEN run_scenarios(valid_users, reserve_configs[w].address, weth_bonus, 1,
                       [heap |-> h, scenarios |-> <<>>])
    ELSE [heap |-> h, scenarios |-> <<>>]

\* what the analysis reports
analysis_of(h, all_users, valid_users, users_excluded, users_with_debt, reserve_configs, weth_bonus, runs) ==
    [all_users |-> all_users,
     valid_users |-> valid_users,
     heap_before |-> h,
     heap_after |-> runs.heap,
     total_users |-> Len(valid_users),
     users_with_debt |-> Len(users_with_debt),
     users_at_risk |-> Len(users_at_risk_of(h, users_with_debt)),
     users_excluded |-> Len(users_excluded),
     total_collateral_usd |-> summed_collateral_usd(h, valid_users),
     total_debt_usd |-> summed_debt_usd(h, valid_users),
     distribution |-> build_distribution_filtered(h, valid_users),
     reserve_configs |-> reserve_configs,
     weth_bonus |-> weth_bonus,
     scenarios |-> runs.scenarios]

\* the analysis once the WETH config is looked up
analyse_with_bonus(h, all_users, valid_users, users_excluded, users_with_debt, reserve_configs, w, weth_bonus) ==
    analysis_of(h, all_users, valid_users, users_excluded, users_with_debt,
        reserve_configs, weth_bonus,
        weth_scenarios(h, valid_users, users_with_debt, reserve_configs, w, weth_bonus))

\* the analysis once the reserve configs are built
analyse_with_configs(h, all_users, valid_users, users_excluded, users_with_debt, reserve_configs, w) ==
    analyse_with_bonus(h, all_users, valid_users, users_excluded, users_with_debt,
        reserve_configs, w, weth_bonus_of(reserve_configs, w))

\* the analysis once the users with debt are selected
analyse_with_debt(h, all_users, valid_users, users_excluded, users_with_debt, reserve_configs) ==
    analyse_with_configs(h, all_users, valid_users, users_excluded, users_with_debt,
        reserve_configs, weth_index(reserve_configs))

\* the part of both callers from the valid population to the scenarios:
\* statistics, distribution, reserve configs, WETH simulations
analyse(h, all_users, valid_users, users_excluded) ==
    analyse_with_debt(h, all_users, valid_users, users_excluded,
        users_with_debt_of(h, valid_users), build_reserve_configs(h, valid_users))

\* ------------------------------------------------------------------------
\* Inputs
\* ------------------------------------------------------------------------

PriceObject(text) == [kind |-> "object", has_priceInUsd |-> TRUE, priceInUsd |-> text]
PriceNull == [kind |-> "null", has_priceInUsd |-> FALSE, priceInUsd |-> <<>>]

\* WETH: 2 decimals, 20 USD
WETH ==
    [symbol |-> "WETH", underlyingAsset |-> <<"0","x","C","2">>,
     decimals |-> Text(2), baseLTVasCollateral |-> Text(8000),
     reserveLiquidationThreshold |-> Text(8250),
     reserveLiquidationBonus |-> Text(10500),
     usageAsCollateralEnabled |-> TRUE,
     price |-> PriceObject(Text(2000000000))]

\* USDC: 1 decimal, 1 USD
USDC ==
    [symbol |-> "USDC", underlyingAsset |-> <<"0","x","A","0">>,
     decimals |-> Text(1), baseLTVasCollateral |-> Text(8000),
     reserveLiquidationThreshold |-> Text(8500),
     reserveLiquidationBonus |-> Text(10400),
     usageAsCollateralEnabled |-> TRUE,
     price |-> PriceObject(Text(100000000))]

\* a reserve the oracle has no price for
DAI ==
    [symbol |-> "DAI", underlyingAsset |-> <<"0","x","d","1">>,
     decimals |-> Text(1), baseLTVasCollateral |-> Text(7500),
     reserveLiquidationThreshold |-> Text(8000),
     reserveLiquidationBonus |-> Text(10500),
     usageAsCollateralEnabled |-> TRUE,
     price |-> PriceNull]

UserReserve(user_id, reserve, balance, variable, stable, on_user) ==
    [user_id |-> user_id, reserve |-> reserve,
     currentATokenBalance |-> Text(balance),
     currentVariableDebt |-> Text(variable),
     currentStableDebt |-> Text(stable),
     usageAsCollateralEnabledOnUser |-> on_user]

User1 == <<"0","x","A","1">>
User2 == <<"0","x","b","2">>
User3 == <<"0","x","c","3">>

\* the userReserve records the subgraph can return; one fetch returns at
\* most MaxRecords of them, in this order
Records ==
    << UserReserve(User1, WETH, 1000, 0, 0, TRUE),      \* 200 USD collateral
       UserReserve(User1, USDC, 0, 1000, 0, FALSE),     \* 100 USD debt
       UserReserve(User1, USDC, 0, 2000, 0, FALSE),     \* 200 USD debt
       UserReserve(User1, DAI, 500, 0, 0, TRUE),        \* no price
       UserReserve(User2, WETH, 1000, 0, 0, TRUE),      \* 200 USD collateral
       UserReserve(User2, USDC, 0, 1500, 0, FALSE),     \* 150 USD debt
       UserReserve(User2, USDC, 0, 1000, 650, FALSE),   \* 165 USD debt
       UserReserve(User3, WETH, 1000, 250, 0, FALSE),   \* 50 USD debt, no collateral
       UserReserve(User3, USDC, 2000, 0, 0, TRUE) >>    \* 200 USD collateral

\* the records of Records at the indices in S, in order
RECURSIVE Pick(_, _)
Pick(S, k) ==
    IF k > Len(Records) THEN <<>>
    ELSE IF k \in S THEN <<Records[k]>> \o Pick(S, k + 1)
         ELSE Pick(S, k + 1)

RawInputs ==
    { Pick(S, 1) : S \in { T \in SUBSET (1..Len(Records)) : Cardinality(T) <= MaxRecords } }

\* a reserve that cannot be used as collateral
GHO ==
    [USDC EXCEPT !.symbol = "GHO", !.underlyingAsset = <<"0","x","9","e">>,
                 !.usageAsCollateralEnabled = FALSE]

User4 == <<"0","x","D","4">>
User5 == <<"0","x","e","5">>

\* records the subgraph can return: some of Records, a user id in another
\* letter case, a large deposit against the smallest debt, reserves without
\* a usable price (no price key and a balance that is no number, a price
\* object without priceInUsd, an empty priceInUsd), a reserve that is no
\* collateral, a priced record whose debt is no number, a small deposit
\* in the asset of the large one, and two debts in WETH
WideRecords ==
    << Records[1], Records[2], Records[4], Records[5], Records[6], Records[8],
       UserReserve(lower(User1), USDC, 0, 1100, 0, FALSE),    \* 110 USD debt
       UserReserve(User4, USDC, 1200000, 1, 0, TRUE),         \* 120000 USD, 0.1 USD debt
       [UserReserve(User5, [DAI EXCEPT !.price =
            [kind |-> "missing", has_priceInUsd |-> FALSE, priceInUsd |-> <<>>]],
            0, 0, 0, TRUE)
           EXCEPT !.currentATokenBalance = <<"a","b","c">>],
       UserReserve(User5, [DAI EXCEPT !.price =
           [kind |-> "object", has_priceInUsd |-> FALSE, priceInUsd |-> <<>>]],
           500, 10, 0, TRUE),
       UserReserve(User2, [DAI EXCEPT !.price = PriceObject(<<>>)], 500, 0, 0, TRUE),
       UserReserve(User2, GHO, 1000, 0, 0, TRUE),             \* 100 USD, no collateral
       UserReserve(User4, GHO, 1000, 0, 0, FALSE),
       [UserReserve(User4, USDC, 0, 0, 0, FALSE)
           EXCEPT !.currentVariableDebt = <<"a","b","c">>],
       Records[9],
       UserReserve(User2, WETH, 0, 50, 0, TRUE),              \* 10 USD debt
       UserReserve(User3, WETH, 0, 900, 0, TRUE) >>           \* 180 USD debt

\* the records of WideRecords at the indices in S, in order
RECURSIVE WidePick(_, _)
WidePick(S, k) ==
    IF k > Len(WideRecords) THEN <<>>
    ELSE IF k \in S THEN <<WideRecords[k]>> \o WidePick(S, k + 1)
         ELSE WidePick(S, k + 1)

WideInputs ==
    { WidePick(S, 1) :
        S \in { T \in SUBSET (1..Len(WideRecords)) : Cardinality(T) <= MaxRecords } }

\* (asset_address, asset_symbol) arguments: WETH in both cases, USDC, and an
\* asset no reserve has
AssetArgs ==
    { <<<<"0","x","c","2">>, "WETH">>, <<<<"0","x","C","2">>, "WETH">>,
      <<<<"0","x","a","0">>, "USDC">>, <<<<"0","x","f","f">>, "LINK">> }

DropPercents == { DecInt(0), DecInt(5), DecInt(10), DecInt(100) }

\* (close_factor, liquidation_bonus) arguments; None is an argument left out
FactorArgs == { <<None, None>>, <<Some(Dec(1, 4)), Some(Dec(1, 10))>> }

\* ------------------------------------------------------------------------
\* State
\* ------------------------------------------------------------------------

VARIABLES
    raw_reserves,   \* what the subgraph returns to a fetch
    heap,           \* the live UserPosition objects
    users,          \* the population: dict user address -> UserHealthFactor
    returned,       \* the value the last call returned, until the caller drops it
    subgraph,       \* the events the subgraph of the chain holds, by event type
    protocol_events,\* the rows of the protocol_events table
    ingest          \* the ingest_event_type run: where it stands

vars == <<raw_reserves, heap, users, returned, subgraph, protocol_events, ingest>>

Nothing == [kind |-> "none"]

Init ==
    /\ raw_reserves \in RawInputs
    /\ heap = <<>>
    /\ users = <<>>
    /\ returned = Nothing
    /\ subgraph = [supply |-> <<>>, borrow |-> <<>>]
    /\ protocol_events = <<>>
    /\ ingest = [kind |-> "idle"]

\* the state after parse_user_reserves returned or raised
reserves_parsed(parsed) ==
    IF parsed.raised
    THEN /\ returned' = [kind |-> "raised"]
         /\ UNCHANGED <<heap, users>>
    ELSE /\ returned' = [kind |-> "parse_user_reserves"]
         /\ heap' = parsed.heap
         /\ users' = parsed.users

\* users = parse_user_reserves(raw_reserves)
ParseUserReserves ==
    /\ returned = Nothing
    /\ reserves_parsed(parse_user_reserves(raw_reserves))
    /\ UNCHANGED <<raw_reserves, subgraph, protocol_events, ingest>>

\* reading the computed properties of users[i]
ReadHealthFactor(i) ==
    /\ returned = Nothing
    /\ i \in 1..Len(users)
    /\ returned' = [kind |-> "health_factor",
                    user |-> i,
                    total_collateral_usd |-> total_collateral_usd(heap, users[i]),
                    total_debt_usd |-> total_debt_usd(heap, users[i]),
                    health_factor |-> health_factor(heap, users[i]),
                    is_liquidatable |-> is_liquidatable(heap, users[i])]
    /\ UNCHANGED <<raw_reserves, heap, users, subgraph, protocol_events, ingest>>

\* returned.result = users[i].simulate_price_drop(asset_address, drop_percent)
SimulatePriceDrop(i, asset_address, drop_percent) ==
    /\ returned = Nothing
    /\ i \in 1..Len(users)
    /\ LET sim == simulate_price_drop(heap, users[i], asset_address, drop_percent)
       IN  /\ heap' = sim.heap
           /\ returned' = [kind |-> "simulate_price_drop",
                           user |-> i,
                           asset_address |-> asset_address,
                           drop_percent |-> drop_percent,
                           result |-> sim.result]
    /\ UNCHANGED <<raw_reserves, users, subgraph, protocol_events, ingest>>

\* the state after simulate_liquidations returned sim
liquidations_returned(sim, factors) ==
    /\ heap' = after_call(sim.heap, heap)
    /\ returned' = [kind |-> "simulate_liquidations",
                    close_factor_arg |-> factors[1],
                    liquidation_bonus_arg |-> factors[2],
                    result |-> sim.result]

\* returned.result = simulate_liquidations(users, ...); the projected
\* aggregates are dropped when the call returns
SimulateLiquidations(asset, price_drop_percent, factors) ==
    /\ returned = Nothing
    /\ liquidations_returned(
           simulate_liquidations(heap, users, asset[1], asset[2],
                                 price_drop_percent, factors[1], factors[2]),
           factors)
    /\ UNCHANGED <<raw_reserves, users, subgraph, protocol_events, ingest>>

\* what the handler answers from the parsed population
analysis_response(parsed) ==
    IF parsed.raised THEN [kind |-> "raised"]
    ELSE [kind |-> "get_health_factor_analysis",
          analysis |-> analyse(parsed.heap, parsed.users,
                               route_valid_users(parsed.heap, parsed.users),
                               route_users_excluded(parsed.heap, parsed.users))]

\* GET /health-factors/{chain_id}: the handler fetches raw_reserves, parses
\* them into its own population and answers from it
GetHealthFactorAnalysis ==
    /\ returned = Nothing
    /\ returned' = IF raw_reserves = <<>> THEN [kind |-> "http_error", status |-> 404]
                   ELSE analysis_response(parse_user_reserves(raw_reserves))
    /\ UNCHANGED <<raw_reserves, heap, users, subgraph, protocol_events, ingest>>

\* what the job stores from the parsed population
snapshot_rows(parsed) ==
    IF parsed.raised THEN [kind |-> "raised"]
    ELSE [kind |-> "ingest_health_factor_snapshot",
          rows |-> 1,
          analysis |-> analyse(parsed.heap, parsed.users,
                               job_valid_users(parsed.heap, parsed.users),
                               job_users_excluded(parsed.heap, parsed.users))]

\* the hourly job: the same analysis over the users above the dust floor
IngestHealthFactorSnapshot ==
    /\ returned = Nothing
    /\ returned' = IF raw_reserves = <<>>
                   THEN [kind |-> "ingest_health_factor_snapshot", rows |-> 0]
                   ELSE snapshot_rows(parse_user_reserves(raw_reserves))
    /\ UNCHANGED <<raw_reserves, heap, users, subgraph, protocol_events, ingest>>

\* the caller drops the returned value; the objects only it referred to go
Release ==
    /\ returned # Nothing
    /\ returned' = Nothing
    /\ heap' = population_heap(heap, users)
    /\ UNCHANGED <<raw_reserves, users, subgraph, protocol_events, ingest>>

Next ==
    \/ ParseUserReserves
    \/ \E i \in 1..MaxRecords : ReadHealthFactor(i)
    \/ \E i \in 1..MaxRecords, asset \in AssetArgs, d \in DropPercents :
          SimulatePriceDrop(i, asset[1], d)
    \/ \E asset \in AssetArgs, d \in DropPercents, f \in FactorArgs :
          SimulateLiquidations(asset, d, f)
    \/ GetHealthFactorAnalysis
    \/ IngestHealthFactorSnapshot
    \/ Release

Spec == Init /\ [][Next]_vars

\* the parser and the two callers on the wider inputs
WideInit ==
    /\ raw_reserves \in WideInputs
    /\ heap = <<>>
    /\ users = <<>>
    /\ returned = Nothing
    /\ subgraph = [supply |-> <<>>, borrow |-> <<>>]
    /\ protocol_events = <<>>
    /\ ingest = [kind |-> "idle"]

WideNext ==
    \/ ParseUserReserves
    \/ GetHealthFactorAnalysis
    \/ IngestHealthFactorSnapshot
    \/ Release

WideSpec == WideInit /\ [][WideNext]_vars

\* ------------------------------------------------------------------------
\* ingest_event_type
\* ------------------------------------------------------------------------

\* the subgraph holds at most MaxEvents supply events, at times 1..MaxTime
MaxEvents == 3
MaxTime == 3

\* the time before the first event that is ingested, in the model's unit of
\* time
FIRST_EVENT_TIME == 1

\* `page_size = 1000` and `first: 1000`, scaled down
PAGE_SIZE == 2

\* variant: the largest timestamp of the chain, whatever the event type
get_max_timestamp_of_chain(rows, chain_id, event_type) ==
    LET stamps == { rows[k].timestamp :
                      k \in { j \in 1..Len(rows) : rows[j].chain_id = chain_id } }
    IN  IF stamps = {} THEN None
        ELSE Some(CHOOSE t \in stamps : \A x \in stamps : x <= t)

\* SELECT MAX(timestamp) ... WHERE chain_id = ... AND event_type = ...:
\* None without a row
get_max_timestamp(rows, chain_id, event_type) ==
    LET stamps == { rows[k].timestamp :
                      k \in { j \in 1..Len(rows) : /\ rows[j].chain_id = chain_id
                                                   /\ rows[j].event_type = event_type } }
    IN  IF stamps = {} THEN None
        ELSE Some(CHOOSE t \in stamps : \A x \in stamps : x <= t)

\* variant: the query takes the events from the timestamp on
page_from_timestamp_on(events, from_timestamp, skip) ==
    LET matching == SelectSeq(events, LAMBDA e : e.timestamp >= from_timestamp)
    IN  SubSeq(matching, skip + 1,
               IF skip + PAGE_SIZE < Len(matching) THEN skip + PAGE_SIZE ELSE Len(matching))

\* one query of fetch_events: where timestamp_gt $from, orderBy timestamp
\* asc, first page_size, skip $skip; events is in the subgraph's order
page_of(events, from_timestamp, skip) ==
    LET matching == SelectSeq(events, LAMBDA e : e.timestamp > from_timestamp)
    IN  SubSeq(matching, skip + 1,
               IF skip + PAGE_SIZE < Len(matching) THEN skip + PAGE_SIZE ELSE Len(matching))

\* transform(raw, chain_id): the columns of the row that matter here
transform(raw, chain_id, event_type) ==
    [id |-> raw.id, chain_id |-> chain_id, event_type |-> event_type,
     timestamp |-> raw.timestamp]

\* INSERT ... ON CONFLICT (id) DO NOTHING of the rows of one page
RECURSIVE insert_events(_, _)
insert_events(rows, events) ==
    IF events = <<>> THEN rows
    ELSE insert_events(IF \E k \in 1..Len(rows) : rows[k].id = Head(events).id
                       THEN rows
                       ELSE Append(rows, Head(events)),
                       Tail(events))

\* max_ts = repo.get_max_timestamp(...); from_ts = max_ts or FIRST_EVENT_TIME;
\* the generator of fetch_events starts at skip 0
StartIngest(chain_id, event_type) ==
    /\ ingest.kind # "running"
    /\ LET max_ts == get_max_timestamp(protocol_events, chain_id, event_type)
       IN  ingest' = [kind |-> "running", chain_id |-> chain_id,
                      event_type |-> event_type,
                      from_ts |-> IF max_ts.isNone THEN FIRST_EVENT_TIME ELSE max_ts.v,
                      skip |-> 0, total_inserted |-> 0]
    /\ UNCHANGED <<raw_reserves, heap, users, returned, subgraph, protocol_events>>

\* the state after a page was fetched and rows_after is the table its
\* insert left: the loop ends with a page shorter than page_size
page_ingested(page, rows_after) ==
    /\ protocol_events' = rows_after
    /\ ingest' = [ingest EXCEPT
                    !.kind = IF Len(page) < PAGE_SIZE THEN "returned" ELSE "running",
                    !.skip = IF Len(page) < PAGE_SIZE THEN @ ELSE @ + PAGE_SIZE,
                    !.total_inserted = @ + Len(rows_after) - Len(protocol_events)]

\* one turn of `for page in fetcher.fetch_events(event_type, from_ts)`: the
\* query, the transform of its events and the insert in one transaction
IngestPage ==
    /\ ingest.kind = "running"
    /\ LET page == page_of(subgraph[ingest.event_type], ingest.from_ts, ingest.skip)
       IN  page_ingested(page,
               insert_events(protocol_events,
                   [k \in 1..Len(page) |->
                       transform(page[k], ingest.chain_id, ingest.event_type)]))
    /\ UNCHANGED <<raw_reserves, heap, users, returned, subgraph>>

\* the run ends with an error (raise_for_status, GraphQL errors, a failing
\* transform or insert): the pages committed so far stay
AbortIngest ==
    /\ ingest.kind = "running"
    /\ ingest' = [ingest EXCEPT !.kind = "raised"]
    /\ UNCHANGED <<raw_reserves, heap, users, returned, subgraph, protocol_events>>

\* the supply events of the subgraph: at most MaxEvents events in the order
\* of their timestamps, the id of an event being its place
SupplyEvents ==
    { [k \in 1..Len(s) |-> [id |-> k, timestamp |-> s[k]]] :
        s \in { t \in UNION { [1..n -> 1..MaxTime] : n \in 0..MaxEvents } :
                  \A k \in 1..(Len(t) - 1) : t[k] <= t[k + 1] } }

\* the table is empty or holds a supply row of another chain; the subgraph
\* of the chain holds supply events and no or one borrow event
EventInit ==
    /\ raw_reserves = <<>>
    /\ heap = <<>>
    /\ users = <<>>
    /\ returned = Nothing
    /\ subgraph \in { [supply |-> s, borrow |-> b] :
                        s \in SupplyEvents,
                        b \in { <<>>, <<[id |-> MaxEvents + 1, timestamp |-> MaxTime]>> } }
    /\ protocol_events \in
          { <<>>, <<[id |-> 0, chain_id |-> "ethereum", event_type |-> "supply",
                     timestamp |-> MaxTime]>> }
    /\ ingest = [kind |-> "idle"]

EventNext ==
    \/ \E event_type \in {"supply", "borrow"} : StartIngest("base", event_type)
    \/ IngestPage
    \/ AbortIngest

EventSpec == EventInit /\ [][EventNext]_vars

\* ------------------------------------------------------------------------
\* Properties
\* ------------------------------------------------------------------------

\* the documented valuation of a position, whatever its collateral flag
ValueUsd(amount, p) ==
    DecMul(DecDiv(amount, DecInt(Pow(10, p.decimals))),
           DecDiv(p.price_usd, DecInt(100000000)))

\* sum of collateral x liquidation threshold / 10000 over the
\* collateral-enabled positions of ps
WeightedCollateral(ps) ==
    DecSum([k \in 1..Len(ps) |->
              IF ps[k].is_collateral_enabled
              THEN DecMul(ValueUsd(ps[k].collateral_balance, ps[k]),
                          DecDiv(ps[k].liquidation_threshold, DecInt(10000)))
              ELSE Zero])

\* sum of the debt of all positions of ps
Debt(ps) ==
    DecSum([k \in 1..Len(ps) |->
              ValueUsd(DecAdd(ps[k].variable_debt, ps[k].stable_debt), ps[k])])

HealthRead == returned.kind = "health_factor"
ReadPositions == positions_of(heap, users[returned.user])

\* C1: with nonzero total debt, health_factor is the threshold-weighted
\* collateral of the collateral-enabled positions divided by the debt of
\* all positions
C1_HealthFactorFormula ==
    HealthRead /\ Debt(ReadPositions) # Zero
        => returned.health_factor =
               Some(DecDiv(WeightedCollateral(ReadPositions), Debt(ReadPositions)))

\* 10 WETH at 20 USD, threshold 8250, against 100 USDC owed through a
\* position that is not collateral: exactly 1.65
C1_Witness ==
    /\ HealthRead
    /\ returned.health_factor = Some(Dec(165, 100))
    /\ \E k \in 1..Len(ReadPositions) :
          /\ ~ReadPositions[k].is_collateral_enabled
          /\ total_debt(ReadPositions[k]) # Zero

\* C2: health_factor is None exactly when the total debt is zero, and then
\* is_liquidatable is false
C2_NoneIffNoDebt ==
    HealthRead =>
        /\ returned.health_factor.isNone <=> Debt(ReadPositions) = Zero
        /\ Debt(ReadPositions) = Zero => ~returned.is_liquidatable

\* a user with collateral and no debt
C2_Witness ==
    /\ HealthRead
    /\ returned.health_factor.isNone
    /\ returned.total_collateral_usd # Zero
    /\ ~returned.is_liquidatable

\* C3: is_liquidatable iff health_factor is not None and below 1
C3_LiquidatableIffBelowOne ==
    HealthRead =>
        (returned.is_liquidatable <=>
            (~returned.health_factor.isNone /\ DecLt(returned.health_factor.v, One)))

\* a health factor of exactly 1 is not liquidatable
C3_Witness ==
    /\ HealthRead
    /\ returned.health_factor = Some(One)
    /\ ~returned.is_liquidatable

Simulated == returned.kind = "simulate_liquidations"

\* health factor of aggregate u of heap h after the projection
ProjectedHealthFactor(h, u, asset_address, drop_percent) ==
    LET sim == simulate_price_drop(h, u, asset_address, drop_percent)
    IN  health_factor(sim.heap, sim.result)

\* the users of us with debt whose projected health factor is below 1
Affected(h, us, asset_address, drop_percent) ==
    { i \in 1..Len(us) :
        /\ Debt(positions_of(h, us[i])) # Zero
        /\ LET hf == ProjectedHealthFactor(h, us[i], asset_address, drop_percent)
           IN  ~hf.isNone /\ DecLt(hf.v, One) }

ReturnedAffected ==
    Affected(heap, users, returned.result.asset_address,
             returned.result.price_drop_percent)

\* C4: affected_users lists exactly the users with debt whose projected
\* health factor is below 1, and users_at_risk counts them
C4_AffectedIffProjectedBelowOne ==
    Simulated =>
        LET listed == returned.result.affected_users
        IN  /\ { listed[k].user_address : k \in 1..Len(listed) }
                 = { users[i].user_address : i \in ReturnedAffected }
            /\ Len(listed) = Cardinality(ReturnedAffected)
            /\ returned.result.users_at_risk = Cardinality(ReturnedAffected)

\* one user is affected, one has debt and stays above 1, one has no debt
C4_Witness ==
    /\ Simulated
    /\ returned.result.users_at_risk = 1
    /\ \E i \in 1..Len(users) : Debt(positions_of(heap, users[i])) = Zero
    /\ \E i \in 1..Len(users) :
          /\ Debt(positions_of(heap, users[i])) # Zero
          /\ i \notin ReturnedAffected

\* a and b are the same text up to the case of letters
SameIgnoringCase(a, b) ==
    /\ Len(a) = Len(b)
    /\ \A i \in 1..Len(a) :
          \/ a[i] = b[i]
          \/ \E j \in 1..26 : {a[i], b[i]} = {UpperCase[j], LowerCase[j]}

PriceDropped == returned.kind = "simulate_price_drop"

\* C5: the projection keeps the user address and the number and order of
\* positions; a position of the shocked asset has its price multiplied by
\* (100 - drop_percent)/100 and nothing else changed, every other position
\* is unchanged
C5_ProjectionShape ==
    PriceDropped =>
        LET u == users[returned.user]
            r == returned.result
            factor == Dec(100 * returned.drop_percent.d - returned.drop_percent.n,
                          100 * returned.drop_percent.d)
        IN  /\ r.user_address = u.user_address
            /\ Len(r.positions) = Len(u.positions)
            /\ \A k \in 1..Len(u.positions) :
                  LET p == heap[u.positions[k]]
                      q == heap[r.positions[k]]
                  IN  IF SameIgnoringCase(p.asset_address, returned.asset_address)
                      THEN q = [p EXCEPT !.price_usd = DecMul(p.price_usd, factor)]
                      ELSE q = p

\* the asset is named in upper case, the position holds it in lower case,
\* and the user has another position as well
C5_Witness ==
    /\ PriceDropped
    /\ returned.drop_percent = DecInt(10)
    /\ Len(returned.result.positions) = 2
    /\ \E k \in 1..2 :
          LET p == heap[users[returned.user].positions[k]]
          IN  /\ p.asset_address # returned.asset_address
              /\ SameIgnoringCase(p.asset_address, returned.asset_address)
              /\ heap[returned.result.positions[k]].price_usd = DecInt(1800000000)
    /\ \E k \in 1..2 :
          ~SameIgnoringCase(heap[users[returned.user].positions[k]].asset_address,
                            returned.asset_address)

\* C6: a simulate_price_drop call leaves the aggregate it is called on as
\* it was: same positions, same prices and balances, same health factor and
\* liquidatable flag
C6_ProjectionLeavesOriginal ==
    [][returned'.kind = "simulate_price_drop" /\ returned.kind = "none" =>
          /\ users' = users
          /\ \A id \in 1..Len(heap) : heap'[id] = heap[id]
          /\ LET i == returned'.user
             IN  /\ health_factor(heap', users'[i]) = health_factor(heap, users[i])
                 /\ is_liquidatable(heap', users'[i]) = is_liquidatable(heap, users[i])
      ]_vars

\* a user at 1.1 is still at 1.1 after the 10% projection yields 0.99
C6_Witness ==
    /\ PriceDropped
    /\ health_factor(heap, users[returned.user]) = Some(Dec(11, 10))
    /\ ~is_liquidatable(heap, users[returned.user])
    /\ health_factor(heap, returned.result) = Some(Dec(99, 100))
    /\ is_liquidatable(heap, returned.result)

Analysed ==
    \/ returned.kind = "get_health_factor_analysis"
    \/ returned.kind = "ingest_health_factor_snapshot" /\ returned.rows = 1

\* the population as construction left it
Constructed ==
    IF users = <<>> THEN [heap |-> <<>>, users |-> <<>>]
    ELSE parse_user_reserves(raw_reserves)

\* C7: simulate_liquidations calls leave the population unchanged, and the
\* scenario for an asset and a drop percent is the one computed from the
\* population as constructed, whatever was called before
C7_ScenariosIndependent ==
    /\ [][returned'.kind = "simulate_liquidations" /\ returned.kind = "none" =>
              users' = users /\ heap' = heap]_vars
    /\ [](Simulated =>
            /\ users = Constructed.users
            /\ heap = Constructed.heap
            /\ returned.result =
                 simulate_liquidations(Constructed.heap, Constructed.users,
                                       returned.result.asset_address,
                                       returned.result.asset_symbol,
                                       returned.result.price_drop_percent,
                                       returned.close_factor_arg,
                                       returned.liquidation_bonus_arg).result)
    /\ [](Analysed =>
            LET a == returned.analysis
            IN  /\ a.heap_after = a.heap_before
                /\ \A k \in 1..Len(a.scenarios) :
                      a.scenarios[k] =
                        simulate_liquidations(a.heap_before, a.valid_users,
                                              a.scenarios[k].asset_address, "WETH",
                                              SCENARIO_DROPS[k], None,
                                              Some(a.weth_bonus)).result)

\* the handler has run its 1%, 3%, 5% and 10% scenarios, and the last one
\* found a user at risk
C7_Witness ==
    /\ Analysed
    /\ Len(returned.analysis.scenarios) = 4
    /\ returned.analysis.scenarios[4].users_at_risk > 0

\* C8: the at-risk totals are the sums of the projected collateral and debt
\* of the affected users only, and both counts are the length of
\* affected_users
C8_AtRiskTotals ==
    Simulated =>
        LET r == returned.result
            projected(i) == simulate_price_drop(heap, users[i], r.asset_address,
                                                r.price_drop_percent)
        IN  /\ r.total_collateral_at_risk_usd =
                 DecSum([i \in 1..Len(users) |->
                           IF i \in ReturnedAffected
                           THEN total_collateral_usd(projected(i).heap, projected(i).result)
                           ELSE Zero])
            /\ r.total_debt_at_risk_usd =
                 DecSum([i \in 1..Len(users) |->
                           IF i \in ReturnedAffected
                           THEN total_debt_usd(projected(i).heap, projected(i).result)
                           ELSE Zero])
            /\ r.users_at_risk = Len(r.affected_users)
            /\ r.users_liquidatable = Len(r.affected_users)

\* the user at 1.1 is affected by the 10% drop: 180 USD of collateral
\* after the shock (200 before) against 150 USD of debt, next to a user
\* who is not affected
C8_Witness ==
    /\ Simulated
    /\ Len(returned.result.affected_users) = 1
    /\ Len(users) = 2
    /\ returned.result.total_collateral_at_risk_usd = DecInt(180)
    /\ returned.result.total_debt_at_risk_usd = DecInt(150)

\* C9: liquidatable debt is debt at risk x close factor, profit is
\* liquidatable debt x bonus, with 0.5 and 0.05 for arguments left out
C9_Estimates ==
    Simulated =>
        LET r == returned.result
            cf == IF returned.close_factor_arg.isNone THEN Dec(5, 10)
                  ELSE returned.close_factor_arg.v
            bonus == IF returned.liquidation_bonus_arg.isNone THEN Dec(5, 100)
                     ELSE returned.liquidation_bonus_arg.v
        IN  /\ r.close_factor = cf
            /\ r.liquidation_bonus = bonus
            /\ r.estimated_liquidatable_debt_usd = DecMul(r.total_debt_at_risk_usd, cf)
            /\ r.estimated_liquidator_profit_usd =
                 DecMul(r.estimated_liquidatable_debt_usd, bonus)

\* 150 USD at risk with both arguments left out: 75 USD liquidatable,
\* 3.75 USD profit
C9_Witness ==
    /\ Simulated
    /\ returned.close_factor_arg.isNone
    /\ returned.liquidation_bonus_arg.isNone
    /\ returned.result.total_debt_at_risk_usd = DecInt(150)
    /\ returned.result.estimated_liquidatable_debt_usd = DecInt(75)
    /\ returned.result.estimated_liquidator_profit_usd = Dec(375, 100)

Collateral(ps) ==
    DecSum([k \in 1..Len(ps) |->
              IF ps[k].is_collateral_enabled
              THEN ValueUsd(ps[k].collateral_balance, ps[k])
              ELSE Zero])

\* x is an element of the sequence s
InSeq(x, s) == \E k \in 1..Len(s) : s[k] = x

\* u has debt and a health factor of at most 1
Artifact(h, u) ==
    /\ Debt(positions_of(h, u)) # Zero
    /\ DecLe(WeightedCollateral(positions_of(h, u)), Debt(positions_of(h, u)))

\* u holds less than 100 USD of collateral
Dust(h, u) == DecLt(Collateral(positions_of(h, u)), DecInt(100))

ByJob == returned.kind = "ingest_health_factor_snapshot"

\* the parsed aggregates with debt and a health factor of at most 1
Artifacts(a) ==
    { i \in 1..Len(a.all_users) : Artifact(a.heap_before, a.all_users[i]) }

BandLows == <<One, Dec(11, 10), Dec(5, 4), Dec(3, 2), DecInt(2), DecInt(3), DecInt(5)>>

\* the health factor of a user with debt
Ratio(h, u) ==
    DecDiv(WeightedCollateral(positions_of(h, u)), Debt(positions_of(h, u)))

\* u has a health factor and it lies in band b
InBand(h, u, b) ==
    /\ Debt(positions_of(h, u)) # Zero
    /\ DecLe(BandLows[b], Ratio(h, u))
    /\ b < Len(BandLows) => DecLt(Ratio(h, u), BandLows[b + 1])

\* the valid users in band b
Members(a, b) ==
    { k \in 1..Len(a.valid_users) : InBand(a.heap_before, a.valid_users[k], b) }

\* sum of the collateral of the valid users in S
CollateralOver(a, S) ==
    DecSum([k \in 1..Len(a.valid_users) |->
              IF k \in S THEN Collateral(positions_of(a.heap_before, a.valid_users[k]))
              ELSE Zero])

\* sum of the debt of the valid users in S
DebtOver(a, S) ==
    DecSum([k \in 1..Len(a.valid_users) |->
              IF k \in S THEN Debt(positions_of(a.heap_before, a.valid_users[k]))
              ELSE Zero])

\* sum of the bucket counts
RECURSIVE CountSum(_, _)
CountSum(distribution, b) ==
    IF b = 0 THEN 0 ELSE distribution[b].count + CountSum(distribution, b - 1)

\* C12: the valid users with a health factor are each counted in one of
\* the seven bands and the users without one in none: the bucket counts
\* sum to the number of valid users with debt, and each bucket's
\* collateral and debt are the sums over the members of its band
C12_DistributionPartitions ==
    Analysed =>
        LET a == returned.analysis
        IN  /\ Len(a.distribution) = Len(BandLows)
            /\ CountSum(a.distribution, Len(a.distribution)) =
                 Cardinality({ k \in 1..Len(a.valid_users) :
                     Debt(positions_of(a.heap_before, a.valid_users[k])) # Zero })
            /\ \A b \in 1..Len(a.distribution) :
                  /\ a.distribution[b].total_collateral_usd =
                       Float(CollateralOver(a, Members(a, b)))
                  /\ a.distribution[b].total_debt_usd =
                       Float(DebtOver(a, Members(a, b)))

\* C13: every bucket counts exactly the valid users with
\* low <= health factor < high, a health factor on a boundary belonging to
\* the higher band, and the last bucket counts every health factor of 5 or
\* more
C13_ClosedOpenBands ==
    Analysed =>
        \A b \in 1..Len(returned.analysis.distribution) :
            returned.analysis.distribution[b].count =
                Cardinality(Members(returned.analysis, b))


\* ---- parse_user_reserves ----

\* the reserve has a null or missing price object, or an empty or missing
\* priceInUsd
NoUsablePrice(reserve) ==
    \/ reserve.price.kind \in {"null", "missing"}
    \/ ~reserve.price.has_priceInUsd
    \/ Len(reserve.price.priceInUsd) = 0

IsPriced(r) == ~NoUsablePrice(r.reserve)

\* the priced records of the input, in input order
Priced == SelectSeq(raw_reserves, IsPriced)

Parsed == returned.kind = "parse_user_reserves"

\* the indices of the entries of the mapping stored under key
EntriesOf(key) == { i \in 1..Len(users) : users[i].user_address = key }

\* the number of positions stored under key
PositionsUnder(key) ==
    IF EntriesOf(key) = {} THEN 0
    ELSE Len(users[CHOOSE i \in EntriesOf(key) : TRUE].positions)

\* the indices of the priced records of the user whose lowercase id is key
PricedOf(key) ==
    { k \in 1..Len(raw_reserves) :
        IsPriced(raw_reserves[k]) /\ lower(raw_reserves[k].user_id) = key }

\* C14: parse_user_reserves drops, without raising, every record whose
\* reserve has a null or missing price object or an empty or missing
\* priceInUsd: the call raises only over a priced record (a dropped record is
\* never converted, malformed or not), a dropped record adds no position to
\* its user's aggregate, and a user all of whose records are dropped has no
\* entry in the returned mapping.
C14_NoPriceDropped ==
    /\ returned.kind = "raised" =>
          \E k \in 1..Len(raw_reserves) :
             /\ IsPriced(raw_reserves[k])
             /\ \E f \in 1..Len(numeric_fields(raw_reserves[k])) :
                   ~IsNumeric(numeric_fields(raw_reserves[k])[f])
    /\ Parsed =>
          /\ Len(heap) = Len(Priced)
          /\ \A k \in 1..Len(raw_reserves) :
                LET key == lower(raw_reserves[k].user_id) IN
                NoUsablePrice(raw_reserves[k].reserve) =>
                   /\ PositionsUnder(key) = Cardinality(PricedOf(key))
                   /\ PricedOf(key) = {} => EntriesOf(key) = {}

\* a parse that returned although a dropped record carried a malformed
\* balance; that record's user has no entry, and another user keeps the
\* priced record next to a dropped one
C14_Witness ==
    /\ Parsed
    /\ \E k \in 1..Len(raw_reserves) :
          /\ NoUsablePrice(raw_reserves[k].reserve)
          /\ ~IsNumeric(raw_reserves[k].currentATokenBalance)
          /\ EntriesOf(lower(raw_reserves[k].user_id)) = {}
    /\ \E k \in 1..Len(raw_reserves) :
          /\ NoUsablePrice(raw_reserves[k].reserve)
          /\ PositionsUnder(lower(raw_reserves[k].user_id)) = 1


\* the places of the returned mapping: <<i, k>> is position k of entry i
Places == UNION { { <<i, k>> : k \in 1..Len(users[i].positions) } : i \in 1..Len(users) }

\* position p was built from record r
BuiltFrom(p, r) ==
    /\ p.user_address = lower(r.user_id)
    /\ p.asset_symbol = r.reserve.symbol
    /\ p.asset_address = lower(r.reserve.underlyingAsset)
    /\ p.collateral_balance = DecInt(ParseInt(r.currentATokenBalance))
    /\ p.variable_debt = DecInt(ParseInt(r.currentVariableDebt))
    /\ p.stable_debt = DecInt(ParseInt(r.currentStableDebt))
    /\ p.price_usd = DecInt(ParseInt(r.reserve.price.priceInUsd))

\* C15: parse_user_reserves returns a mapping keyed by lowercase user
\* address (every key is lowercase and no key occurs twice) in which each
\* priced input record appears as exactly one position, in the aggregate
\* stored under the lowercase form of its user id; so records whose user ids
\* differ only in letter case share one aggregate, and the total number of
\* positions equals the number of priced records.
C15_GroupedByLowercaseAddress ==
    Parsed =>
       /\ \A i \in 1..Len(users) :
             /\ users[i].user_address = lower(users[i].user_address)
             /\ EntriesOf(users[i].user_address) = {i}
       /\ Len(heap) = Len(Priced)
       /\ \A j \in 1..Len(Priced) :
             /\ BuiltFrom(heap[j], Priced[j])
             /\ Cardinality({ pl \in Places : users[pl[1]].positions[pl[2]] = j }) = 1
             /\ \E i \in EntriesOf(lower(Priced[j].user_id)) :
                   InSeq(j, users[i].positions)
       /\ Cardinality(Places) = Len(Priced)

\* two priced records whose user ids differ only in letter case, parsed into
\* one aggregate of two positions
C15_Witness ==
    /\ Parsed
    /\ \E j, k \in 1..Len(Priced) :
          /\ Priced[j].user_id # Priced[k].user_id
          /\ lower(Priced[j].user_id) = lower(Priced[k].user_id)
          /\ \E i \in 1..Len(users) :
                /\ InSeq(j, users[i].positions)
                /\ InSeq(k, users[i].positions)
                /\ Len(users[i].positions) = 2


\* C16: for every position built by parse_user_reserves, is_collateral_enabled
\* is true if and only if both the record's usageAsCollateralEnabledOnUser
\* flag and its reserve's usageAsCollateralEnabled flag are true; if either
\* is false the position's collateral_usd is zero, whatever its balance.
C16_CollateralEnabledIsBothFlags ==
    Parsed =>
       \A j \in 1..Len(heap) :
          LET BothFlags == /\ Priced[j].usageAsCollateralEnabledOnUser = TRUE
                           /\ Priced[j].reserve.usageAsCollateralEnabled = TRUE
          IN /\ heap[j].is_collateral_enabled <=> BothFlags
             /\ ~BothFlags => collateral_usd(heap[j]) = Zero

\* a parsed record with a positive balance and price whose user opted in
\* while the reserve is not usable as collateral, and one with both flags set
C16_Witness ==
    /\ Parsed
    /\ Len(heap) = Len(Priced)
    /\ \E j \in 1..Len(heap) :
          /\ Priced[j].usageAsCollateralEnabledOnUser
          /\ ~Priced[j].reserve.usageAsCollateralEnabled
          /\ DecLt(Zero, heap[j].collateral_balance)
          /\ DecLt(Zero, heap[j].price_usd)
          /\ ~heap[j].is_collateral_enabled
    /\ \E j \in 1..Len(heap) :
          /\ heap[j].is_collateral_enabled
          /\ DecLt(Zero, collateral_usd(heap[j]))


\* ---- positions that are not collateral ----

\* C17: for every position with is_collateral_enabled false, collateral_usd
\* is 0 whatever its balance and price, while its debt_usd is still
\* (variable_debt + stable_debt)/10^decimals x price_usd/10^8; the user's
\* total debt sums the debt of all positions, those included, and the user's
\* total collateral counts none of their balance.
C17_NotEnabledCountsAsDebtOnly ==
    /\ \A j \in 1..Len(heap) :
          ~heap[j].is_collateral_enabled =>
             /\ collateral_usd(heap[j]) = Zero
             /\ debt_usd(heap[j]) =
                   ValueUsd(DecAdd(heap[j].variable_debt, heap[j].stable_debt), heap[j])
    /\ HealthRead =>
          /\ returned.total_debt_usd =
                DecSum([k \in 1..Len(ReadPositions) |-> debt_usd(ReadPositions[k])])
          /\ returned.total_collateral_usd = Collateral(ReadPositions)

\* a user whose WETH position holds a balance and a debt but is not
\* collateral: the debt is the user's whole debt of 50 USD and the balance
\* is no part of the 200 USD of collateral
C17_Witness ==
    /\ HealthRead
    /\ returned.total_debt_usd = DecInt(50)
    /\ returned.total_collateral_usd = DecInt(200)
    /\ \E k \in 1..Len(ReadPositions) :
          /\ ~ReadPositions[k].is_collateral_enabled
          /\ DecLt(Zero, ReadPositions[k].collateral_balance)
          /\ DecLt(Zero, ReadPositions[k].price_usd)
          /\ debt_usd(ReadPositions[k]) = DecInt(50)


\* ---- the list of affected users ----

\* C18: the affected_users list returned by simulate_liquidations holds every
\* affected user exactly once, whatever their number, each with the float of
\* their post-shock health factor as hf_after, and is ordered by hf_after
\* ascending: of two consecutive entries the earlier one's hf_after is less
\* than or equal to the later one's.
C18_AffectedCompleteAndSorted ==
    Simulated =>
        LET r == returned.result
            listed == r.affected_users
        IN  /\ Len(listed) = Cardinality(ReturnedAffected)
            /\ \A i \in ReturnedAffected :
                  \E k \in 1..Len(listed) :
                     /\ listed[k].user_address = users[i].user_address
                     /\ listed[k].hf_after =
                           Float(ProjectedHealthFactor(heap, users[i], r.asset_address,
                                                       r.price_drop_percent).v)
                     /\ \A m \in 1..Len(listed) :
                           listed[m].user_address = users[i].user_address => m = k
            /\ \A k \in 1..(Len(listed) - 1) :
                  DecLe(listed[k].hf_after, listed[k + 1].hf_after)

\* every user of the population is affected and the list is the population
\* in reverse: the second user, with the smaller hf_after, comes first
C18_Witness ==
    /\ Simulated
    /\ Len(users) = 2
    /\ Len(returned.result.affected_users) = 2
    /\ returned.result.affected_users[1].user_address = users[2].user_address
    /\ returned.result.affected_users[2].user_address = users[1].user_address
    /\ DecLt(returned.result.affected_users[1].hf_after,
             returned.result.affected_users[2].hf_after)


\* ---- the prices of a scenario ----

\* the positions of the population in the order of the scan: user by user,
\* each user's positions in order
RECURSIVE ScanOrder(_, _, _)
ScanOrder(h, us, i) ==
    IF i > Len(us) THEN <<>>
    ELSE positions_of(h, us[i]) \o ScanOrder(h, us, i + 1)

\* the places of ps whose asset address is asset_address up to letter case
Matching(ps, asset_address) ==
    { k \in 1..Len(ps) : SameIgnoringCase(ps[k].asset_address, asset_address) }

\* price/10^8 of the first position of ps matching asset_address, zero
\* without one
FirstMatchingPrice(ps, asset_address) ==
    IF Matching(ps, asset_address) = {} THEN Zero
    ELSE LET first == CHOOSE k \in Matching(ps, asset_address) :
                         \A m \in Matching(ps, asset_address) : k <= m
         IN  DecDiv(ps[first].price_usd, DecInt(100000000))

C19_NoMatch ==
    /\ Simulated
    /\ Len(heap) > 0
    /\ Matching(ScanOrder(heap, users, 1), returned.result.asset_address) = {}
    /\ returned.result.original_price_usd = Zero
    /\ returned.result.simulated_price_usd = Zero


\* ---- scenarios that find nothing ----

\* no position of the population matches the asset of the scenario
NoMatch == Matching(ScanOrder(heap, users, 1), returned.result.asset_address) = {}

\* no user of the population has debt
NoDebt == \A i \in 1..Len(users) : Debt(positions_of(heap, users[i])) = Zero

\* a user with debt whose health factor is below 1 before any shock
SomeUnderwater ==
    \E i \in 1..Len(users) :
       /\ Debt(positions_of(heap, users[i])) # Zero
       /\ DecLt(health_factor(heap, users[i]).v, One)

\* users_at_risk 0, an empty affected_users list and zero collateral at risk,
\* debt at risk, liquidatable debt and profit
ZeroScenario ==
    /\ returned.result.users_at_risk = 0
    /\ returned.result.users_liquidatable = 0
    /\ returned.result.affected_users = <<>>
    /\ returned.result.total_collateral_at_risk_usd = Zero
    /\ returned.result.total_debt_at_risk_usd = Zero
    /\ returned.result.estimated_liquidatable_debt_usd = Zero
    /\ returned.result.estimated_liquidator_profit_usd = Zero

\* C20 as claimed: for an empty population, a population in which no position
\* matches asset_address, or a population in which no user has debt,
\* simulate_liquidations returns a scenario with users_at_risk 0, an empty
\* affected_users list and zero collateral at risk, debt at risk,
\* liquidatable debt and profit.
C20_ZeroScenario ==
    Simulated /\ (users = <<>> \/ NoMatch \/ NoDebt) => ZeroScenario

\* C20: simulate_liquidations returns the zero-valued scenario for an empty
\* population, for a population in which no user has debt, and for a
\* population in which no position matches asset_address provided no user
\* with debt is below a health factor of 1 already; a user below 1 before the
\* shock is listed as affected whatever the asset.
C20_ZeroScenarioUnlessUnderwater ==
    Simulated =>
       /\ (users = <<>> \/ NoDebt \/ (NoMatch /\ ~SomeUnderwater)) => ZeroScenario
       /\ NoMatch /\ SomeUnderwater => ~ZeroScenario

\* a population with debt, its health factors at 1 and above, simulated for
\* an asset no position holds
C20_Witness ==
    /\ Simulated
    /\ NoMatch
    /\ ~NoDebt
    /\ ~SomeUnderwater
    /\ \E i \in 1..Len(users) : health_factor(heap, users[i]) = Some(One)
    /\ ZeroScenario

\* the empty population
C20_EmptyPopulation == Simulated /\ users = <<>> /\ ZeroScenario

\* a population without debt that holds the shocked asset
C20_NoDebtAtAll == Simulated /\ users # <<>> /\ NoDebt /\ ~NoMatch /\ ZeroScenario


\* ---- malformed numeric texts ----

\* every numeric text of the record converts
WellFormed(r) ==
    \A f \in 1..Len(numeric_fields(r)) : IsNumeric(numeric_fields(r)[f])

IsPricedAndWellFormed(r) == IsPriced(r) /\ WellFormed(r)

\* the priced records of the input whose numeric texts all convert
PricedAndWellFormed == SelectSeq(raw_reserves, IsPricedAndWellFormed)

\* the input holds a priced record with a malformed numeric text
SomeMalformed ==
    \E k \in 1..Len(raw_reserves) :
       IsPriced(raw_reserves[k]) /\ ~WellFormed(raw_reserves[k])

\* C21: a malformed numeric string in one record's balances fails the
\* parsing of that record only: every call of parse_user_reserves returns a
\* mapping that holds one position for each priced record whose numeric
\* texts convert, and none for a record with a malformed one.
C21_MalformedRecordOnly ==
    [][ParseUserReserves =>
          /\ returned'.kind = "parse_user_reserves"
          /\ Len(heap') = Len(PricedAndWellFormed)
          /\ \A j \in 1..Len(PricedAndWellFormed) :
                BuiltFrom(heap'[j], PricedAndWellFormed[j])]_vars

\* what the call does with a malformed record: it ends without a mapping,
\* the positions built before the record are lost with it, and the
\* population the caller held is untouched
C21_MalformedAbortsCall ==
    [][ParseUserReserves =>
          IF SomeMalformed
          THEN returned'.kind = "raised" /\ heap' = heap /\ users' = users
          ELSE /\ returned'.kind = "parse_user_reserves"
               /\ Len(heap') = Len(PricedAndWellFormed)]_vars

\* a call that raised over an input that also holds a well-formed priced
\* record before the malformed one
C21_Reached ==
    /\ returned.kind = "raised"
    /\ \E j, k \in 1..Len(raw_reserves) :
          /\ j < k
          /\ IsPricedAndWellFormed(raw_reserves[j])
          /\ IsPriced(raw_reserves[k]) /\ ~WellFormed(raw_reserves[k])


\* ---- relations between projections ----

\* C22: for every aggregate and every asset address,
\* simulate_price_drop(address, 0) returns an aggregate whose health_factor,
\* total collateral and total debt are identical to the original's.
C22_ZeroDropIsNoOp ==
    PriceDropped /\ returned.drop_percent = Zero =>
        LET u == users[returned.user]
            r == returned.result
        IN  /\ health_factor(heap, r) = health_factor(heap, u)
            /\ total_collateral_usd(heap, r) = total_collateral_usd(heap, u)
            /\ total_debt_usd(heap, r) = total_debt_usd(heap, u)
            /\ is_liquidatable(heap, r) = is_liquidatable(heap, u)

\* a zero drop of an asset the user holds: the matching position is a new
\* object and the health factor is 1.65 before and after
C22_Witness ==
    /\ PriceDropped
    /\ returned.drop_percent = Zero
    /\ returned.result.positions # users[returned.user].positions
    /\ health_factor(heap, users[returned.user]) = Some(Dec(165, 100))
    /\ health_factor(heap, returned.result) = Some(Dec(165, 100))


\* the heap with the price of object id multiplied by factor
Repriced(h, id, factor) == [h EXCEPT ![id].price_usd = DecMul(@, factor)]

\* the factors by which a price is raised; a price stays below 2^31
PriceRaises == { Dec(101, 100), Dec(21, 20) }

\* a does not exceed b, for health factors that are not None
NotAbove(a, b) == ~a.isNone /\ ~b.isNone /\ DecLe(a.v, b.v)

\* C23: for an aggregate with nonzero debt, raising the price of any
\* collateral-enabled position while the user's total debt stays the same
\* never lowers health_factor.  Checked on the aggregates read and on every
\* raise in PriceRaises of one of their collateral-enabled positions, and on
\* every projection, whose original is the projected aggregate with the
\* shocked price raised back.
C23_MonotoneInCollateralPrice ==
    /\ HealthRead /\ returned.total_debt_usd # Zero =>
          LET u == users[returned.user] IN
          \A k \in 1..Len(u.positions), f \in PriceRaises :
             LET raised == Repriced(heap, u.positions[k], f) IN
             /\ heap[u.positions[k]].is_collateral_enabled
             /\ total_debt_usd(raised, u) = returned.total_debt_usd
             => NotAbove(returned.health_factor, health_factor(raised, u))
    /\ PriceDropped =>
          LET u == users[returned.user]
              r == returned.result
          IN  /\ total_debt_usd(heap, u) # Zero
              /\ total_debt_usd(heap, r) = total_debt_usd(heap, u)
              /\ DecLe(Zero, returned.drop_percent)
              /\ \A k \in 1..Len(u.positions) :
                    r.positions[k] # u.positions[k]
                       => heap[u.positions[k]].is_collateral_enabled
              => NotAbove(health_factor(heap, r), health_factor(heap, u))

\* the projection of a user at 1.1 holds the WETH collateral at 18 USD and
\* stands at 0.99; with the price back at 20 USD and the same 150 USD of
\* debt the health factor is higher
C23_Witness ==
    /\ PriceDropped
    /\ total_debt_usd(heap, returned.result) = DecInt(150)
    /\ total_debt_usd(heap, users[returned.user]) = DecInt(150)
    /\ \E k \in 1..Len(returned.result.positions) :
          /\ heap[returned.result.positions[k]].is_collateral_enabled
          /\ heap[returned.result.positions[k]].price_usd = DecInt(1800000000)
          /\ heap[users[returned.user].positions[k]].price_usd = DecInt(2000000000)
    /\ health_factor(heap, returned.result) = Some(Dec(99, 100))
    /\ health_factor(heap, users[returned.user]) = Some(Dec(11, 10))

\* a user with debt was read whose collateral-enabled position carries no
\* debt, so that raising its price leaves the debt as it is
C23_RaiseReached ==
    /\ HealthRead
    /\ returned.total_debt_usd # Zero
    /\ \E k \in 1..Len(ReadPositions) :
          /\ ReadPositions[k].is_collateral_enabled
          /\ total_debt(ReadPositions[k]) = Zero
          /\ DecLt(Zero, collateral_usd(ReadPositions[k]))


\* ---- building the distribution again ----

BandLabels == <<"1.0-1.1", "1.1-1.25", "1.25-1.5", "1.5-2.0", "2.0-3.0", "3.0-5.0", "> 5.0">>

PopulationObjects == UNION { { users[i].positions[k] : k \in 1..Len(users[i].positions) } : i \in 1..Len(users) }

\* C25: no mutable state is shared between a base aggregate and an aggregate
\* derived from it by simulate_price_drop: every position of the derived
\* aggregate, matching the shocked asset or not, is an object of its own
\* that no aggregate of the population refers to.
C25_NoSharedPositions ==
    PriceDropped =>
        \A k \in 1..Len(returned.result.positions) :
           returned.result.positions[k] \notin PopulationObjects

\* what the projection shares: a position of the shocked asset is a new
\* object, every other position is the very object of the base aggregate
C25_OnlyMatchingCopied ==
    PriceDropped =>
        LET u == users[returned.user]
            r == returned.result
        IN  \A k \in 1..Len(r.positions) :
               IF SameIgnoringCase(heap[u.positions[k]].asset_address,
                                   returned.asset_address)
               THEN r.positions[k] \notin PopulationObjects
               ELSE r.positions[k] = u.positions[k]

\* a projection of a user with a position of the shocked asset and one of
\* another asset
C25_Reached ==
    /\ PriceDropped
    /\ \E k \in 1..Len(returned.result.positions) :
          returned.result.positions[k] \in PopulationObjects
    /\ \E k \in 1..Len(returned.result.positions) :
          returned.result.positions[k] \notin PopulationObjects


\* ---- the cursor of ingest_event_type ----

\* the timestamps stored for the chain and event type of the run
OwnStamps ==
    { protocol_events[k].timestamp :
        k \in { j \in 1..Len(protocol_events) :
                  /\ protocol_events[j].chain_id = ingest.chain_id
                  /\ protocol_events[j].event_type = ingest.event_type } }

\* the run has read its cursor and has not fetched a page yet
Started == ingest.kind = "running" /\ ingest.skip = 0

\* the events of the run's type the subgraph holds after the run's cursor
AfterCursor == SelectSeq(subgraph[ingest.event_type], LAMBDA e : e.timestamp > ingest.from_ts)

\* C26: each run of ingest_event_type for a chain and event type asks the
\* fetcher for events with timestamp strictly greater than the largest
\* timestamp already stored for that same chain and event type, or greater
\* than FIRST_EVENT_TIME when none is stored; rows of other chains or other
\* event types never move this cursor.  Every page the run stores is the
\* next page of the events after the cursor.
C26_CursorOfOwnChainAndType ==
    /\ [](Started =>
            IF OwnStamps = {} THEN ingest.from_ts = FIRST_EVENT_TIME
            ELSE /\ ingest.from_ts \in OwnStamps
                 /\ \A t \in OwnStamps : t <= ingest.from_ts)
    /\ [][IngestPage =>
            \A k \in 1..Len(protocol_events') :
               k > Len(protocol_events) =>
                  /\ protocol_events'[k].timestamp > ingest.from_ts
                  /\ protocol_events'[k].chain_id = ingest.chain_id
                  /\ protocol_events'[k].event_type = ingest.event_type
                  /\ \E m \in (ingest.skip + 1)..(ingest.skip + PAGE_SIZE) :
                        /\ m <= Len(AfterCursor)
                        /\ AfterCursor[m].id = protocol_events'[k].id]_vars

\* a supply run starts from its own largest timestamp while a row of
\* another chain and a borrow row of the same chain carry later ones
C26_Witness ==
    /\ Started
    /\ ingest.event_type = "supply"
    /\ OwnStamps # {}
    /\ ingest.from_ts > FIRST_EVENT_TIME
    /\ \E k \in 1..Len(protocol_events) :
          /\ protocol_events[k].chain_id # ingest.chain_id
          /\ protocol_events[k].timestamp > ingest.from_ts
    /\ \E k \in 1..Len(protocol_events) :
          /\ protocol_events[k].chain_id = ingest.chain_id
          /\ protocol_events[k].event_type # ingest.event_type
          /\ protocol_events[k].timestamp > ingest.from_ts

\* a first run on an empty table starts from FIRST_EVENT_TIME
C26_FirstRun ==
    Started /\ protocol_events = <<>> /\ ingest.from_ts = FIRST_EVENT_TIME

\* the number of rows stored under id
StoredTimes(id) == Cardinality({ k \in 1..Len(protocol_events) : protocol_events[k].id = id })

\* C28: for a fixed set of subgraph events of one chain and event type, after
\* any sequence of ingest_event_type runs, aborted ones included, a run that
\* completes without error leaves every subgraph event with timestamp
\* greater than FIRST_EVENT_TIME stored exactly once.
C28_CompleteRunStoresAllOnce ==
    ingest.kind = "returned" =>
        \A k \in 1..Len(subgraph[ingest.event_type]) :
           LET e == subgraph[ingest.event_type][k] IN
           e.timestamp > FIRST_EVENT_TIME => StoredTimes(e.id) = 1

\* what does hold: no event is ever stored twice, and after a completed run
\* an event is missing only if it carries the very timestamp the run
\* started from
C28_MissingOnlyAtCursor ==
    /\ \A k \in 1..Len(protocol_events) : StoredTimes(protocol_events[k].id) = 1
    /\ ingest.kind = "returned" =>
          \A k \in 1..Len(subgraph[ingest.event_type]) :
             LET e == subgraph[ingest.event_type][k] IN
             e.timestamp > FIRST_EVENT_TIME /\ StoredTimes(e.id) = 0
                => /\ e.timestamp <= ingest.from_ts
                   /\ e.timestamp \in OwnStamps

\* a run completed although an event after FIRST_EVENT_TIME is not stored
C28_Reached ==
    /\ ingest.kind = "returned"
    /\ \E k \in 1..Len(subgraph[ingest.event_type]) :
          /\ subgraph[ingest.event_type][k].timestamp > FIRST_EVENT_TIME
          /\ StoredTimes(subgraph[ingest.event_type][k].id) = 0


\* ---- exact arithmetic ----

\* the positions of the valid users of analysis a
ValidPositions(a) == all_positions(a.heap_before, a.valid_users)

\* the exact sum of amount(p) over the positions of ps held in the asset at
\* address addr
ExactOver(ps, addr, amount(_)) ==
    DecSum([k \in 1..Len(ps) |-> IF ps[k].asset_address = addr THEN amount(ps[k]) ELSE Zero])

\* the liquidation bonus of the first WETH position of ps as a fraction
ExactWethBonus(ps) ==
    LET first == CHOOSE k \in 1..Len(ps) :
                    /\ ps[k].asset_symbol = "WETH"
                    /\ \A j \in 1..(k - 1) : ps[j].asset_symbol # "WETH"
    IN  DecSub(DecDiv(ps[first].liquidation_bonus, DecInt(10000)), One)

\* C27: all aggregation arithmetic on monetary values is carried out in an
\* exact decimal type and a value is converted to floating point only after
\* all aggregation on it is complete: every per-asset total is the float of
\* the exact sum over the asset's positions, the summary totals are the
\* floats of the exact sums over the valid users, and the at-risk totals and
\* estimates of every scenario are exact, the profit being the liquidatable
\* debt times the exact liquidation bonus of WETH.
C27_ExactUntilResponse ==
    Analysed =>
        LET a == returned.analysis
            ps == ValidPositions(a)
        IN  /\ \A i \in 1..Len(a.reserve_configs) :
                  LET rc == a.reserve_configs[i] IN
                  /\ rc.total_collateral_usd =
                        Float(ExactOver(ps, rc.address, collateral_usd))
                  /\ rc.total_debt_usd = Float(ExactOver(ps, rc.address, debt_usd))
            /\ a.total_collateral_usd = Float(Collateral(ps))
            /\ a.total_debt_usd = Float(Debt(ps))
            /\ \A k \in 1..Len(a.scenarios) :
                  /\ a.scenarios[k].liquidation_bonus = ExactWethBonus(ps)
                  /\ a.scenarios[k].estimated_liquidatable_debt_usd =
                        DecMul(a.scenarios[k].total_debt_at_risk_usd, Dec(1, 2))
                  /\ a.scenarios[k].estimated_liquidator_profit_usd =
                        DecMul(a.scenarios[k].estimated_liquidatable_debt_usd,
                               ExactWethBonus(ps))


\* ---- hf_before of an affected user ----

\* the users of the population that the entry of an affected_users list
\* is about
UsersOfEntry(entry) == { i \in 1..Len(users) : users[i].user_address = entry.user_address }

\* C30: every entry of affected_users produced by simulate_liquidations
\* carries a non-null hf_before equal to the float of the user's pre-shock
\* health factor, also for a user whose pre-shock health factor is 0.
C30_HfBeforeNeverNull ==
    Simulated =>
        \A k \in 1..Len(returned.result.affected_users) :
           LET entry == returned.result.affected_users[k] IN
           \A i \in UsersOfEntry(entry) :
              /\ ~entry.hf_before.isNone
              /\ entry.hf_before.v = Float(health_factor(heap, users[i]).v)

\* what the code reports: hf_before is the float of the pre-shock health
\* factor unless that health factor is 0, and then it is null
C30_HfBeforeNullAtZero ==
    Simulated =>
        \A k \in 1..Len(returned.result.affected_users) :
           LET entry == returned.result.affected_users[k] IN
           \A i \in UsersOfEntry(entry) :
              LET hf == health_factor(heap, users[i]) IN
              /\ ~hf.isNone
              /\ entry.hf_before.isNone <=> hf.v = Zero
              /\ ~entry.hf_before.isNone => entry.hf_before.v = Float(hf.v)

\* an affected user with debt and no collateral is reported with a null
\* hf_before and an hf_after of 0, next to an affected user whose hf_before
\* is a number
C30_Reached ==
    /\ Simulated
    /\ \E k, m \in 1..Len(returned.result.affected_users) :
          /\ returned.result.affected_users[k].hf_before.isNone
          /\ returned.result.affected_users[k].hf_after = Zero
          /\ ~returned.result.affected_users[m].hf_before.isNone


\* ---- growing drops ----

\* the addresses of the affected users of simulation sim
AffectedAddresses(sim) ==
    { sim.affected_users[k].user_address : k \in 1..Len(sim.affected_users) }

\* the valid users of analysis a that hold debt in the asset at address addr
DebtorsIn(a, addr) ==
    { a.valid_users[i].user_address : i \in
        { j \in 1..Len(a.valid_users) :
            \E k \in 1..Len(positions_of(a.heap_before, a.valid_users[j])) :
               LET pos == positions_of(a.heap_before, a.valid_users[j])[k] IN
               /\ SameIgnoringCase(pos.asset_address, addr)
               /\ DecLt(Zero, debt_usd(pos)) } }

\* C29: over a population in which every user with debt has a health factor
\* above 1, as the valid users of the analysis are, and for two drops
\* d1 <= d2 below 100 of the same asset, every user affected by
\* simulate_liquidations at d1 is affected at d2, and users_at_risk at d2 is
\* at least users_at_risk at d1, also for users who hold debt in the asset.
C29_AtRiskGrowsWithDrop ==
    Analysed =>
        LET s == returned.analysis.scenarios IN
        \A k, m \in 1..Len(s) :
           ( /\ s[k].asset_address = s[m].asset_address
             /\ DecLe(Zero, s[k].price_drop_percent)
             /\ DecLe(s[k].price_drop_percent, s[m].price_drop_percent)
             /\ DecLt(s[m].price_drop_percent, DecInt(100)) )
           => /\ AffectedAddresses(s[k]) \subseteq AffectedAddresses(s[m])
              /\ s[k].users_at_risk <= s[m].users_at_risk

\* a user with collateral and debt in WETH is affected by the drops of 5 and
\* 10 percent and by no smaller one
C29_Witness ==
    /\ Analysed
    /\ Len(returned.analysis.scenarios) = 4
    /\ LET a == returned.analysis
           s == a.scenarios
       IN  \E addr \in DebtorsIn(a, s[1].asset_address) :
              /\ addr \notin AffectedAddresses(s[1])
              /\ addr \notin AffectedAddresses(s[2])
              /\ addr \in AffectedAddresses(s[3])
              /\ addr \in AffectedAddresses(s[4])
              /\ s[2].users_at_risk < s[3].users_at_risk

====
